---------------------------- MODULE Spec2Model ----------------------------
(***************************************************************************)
(* A model of the Sparkle MCP server: the path sandbox (PathValidator and  *)
(* the file tool handlers of the server) and the directory index           *)
(* (SparkleFolder).                                                        *)
(*                                                                         *)
(* Strings are sequences of characters.  To keep the fixtures readable a   *)
(* character group that is never split ("home", "Sparkle", "-Dev") is      *)
(* written as one element; "/" is always an element of its own, so the     *)
(* string operations of the code (split on "/", startsWith) are computed   *)
(* on the sequences exactly as the code computes them on the characters.   *)
(***************************************************************************)
EXTENDS Integers, Sequences, FiniteSets, TLC

VARIABLES
    fs,          \* the disk: canonical absolute path -> node
    config,      \* PathValidator.config (SecurityConfig)
    vres,        \* the outcome of the last PathValidator.validatePath call
    tres,        \* the outcome of the last tool handler call of the server
    requests,    \* RateLimiter.requests: identifier -> accepted timestamps
    now,         \* the clock read by Date.now()
    mutations,   \* how many tool calls have changed the disk
    initPc,      \* SparkleFolder.initialize: the await it is suspended at
    walk,        \* walkDirectory: the pending readdir, the callers' frames,
                 \* the files found so far
    scan,        \* indexAllFiles: the position in the files, the indexFile
                 \* call in flight
    fileIndex,   \* SparkleFolder.fileIndex (a Map: entries in insertion order)
    indexReady,  \* SparkleFolder.indexReady
    watcher,     \* SparkleFolder.watcher: "none", "watching" or "closed"
    events,      \* watch events chokidar has still to deliver
    tasks,       \* the calls of the watch handlers in delivery order, in
                 \* flight or settled
    queries,     \* the findRelevant calls
    userOps,     \* how many changes the user has made to the folder
    searches,    \* the FileSearchEngine.search calls
    startups,    \* the runs of ensureSparkleFolder, one per start of the
                 \* server, in order
    scorings     \* the calls of SparkleFolder's scoring functions made on
                 \* their own, with what they returned

validatorVars == <<config, vres>>
toolVars == <<tres, requests, now, mutations>>
indexVars == <<initPc, walk, scan, fileIndex, indexReady, watcher, events,
               tasks, queries, userOps, searches, startups, scorings>>
vars == <<fs, config, vres, tres, requests, now, mutations, initPc, walk, scan,
          fileIndex, indexReady, watcher, events, tasks, queries, userOps,
          searches, startups, scorings>>

(***************************************************************************)
(* Strings and paths (node's path module, POSIX flavour)                   *)
(***************************************************************************)
Sl == "/"
Dot == <<".">>
DotDot == <<"..">>
Empty == <<>>

\* String.prototype.startsWith
StartsWith(s, prefix) ==
    /\ Len(prefix) <= Len(s)
    /\ SubSeq(s, 1, Len(prefix)) = prefix

\* path.isAbsolute
IsAbsolute(p) == p # Empty /\ Head(p) = Sl

RECURSIVE SplitAcc(_, _, _)
SplitAcc(s, cur, acc) ==
    IF s = Empty THEN Append(acc, cur)
    ELSE IF Head(s) = Sl THEN SplitAcc(Tail(s), Empty, Append(acc, cur))
    ELSE SplitAcc(Tail(s), Append(cur, Head(s)), acc)

\* the segments of a path string, split on "/"
Split(s) == SplitAcc(s, Empty, <<>>)

RECURSIVE NormAcc(_, _)
NormAcc(segs, out) ==
    IF segs = <<>> THEN out
    ELSE LET h == Head(segs)
             t == Tail(segs)
         IN  IF h = Empty \/ h = Dot THEN NormAcc(t, out)
             ELSE IF h = DotDot
                  THEN NormAcc(t, IF out = <<>> THEN out
                                  ELSE SubSeq(out, 1, Len(out) - 1))
                  ELSE NormAcc(t, Append(out, h))

\* the segments of an absolute path with "", "." and ".." resolved lexically
Normalize(segs) == NormAcc(segs, <<>>)

RECURSIVE JoinSegs(_)
JoinSegs(segs) ==
    IF segs = <<>> THEN Empty
    ELSE <<Sl>> \o Head(segs) \o JoinSegs(Tail(segs))

\* the absolute path string of a list of segments ("/" for none)
Join(segs) == IF segs = <<>> THEN <<Sl>> ELSE JoinSegs(segs)

\* path.join(dir, name)
PathJoin(dir, name) == Join(Normalize(Split(dir \o <<Sl>> \o name)))

\* path.dirname of an absolute normalized path
Dirname(p) ==
    LET segs == Normalize(Split(p))
    IN  IF segs = <<>> THEN <<Sl>> ELSE Join(SubSeq(segs, 1, Len(segs) - 1))

\* path.resolve(base, p): p if absolute, else base/p; normalized, no trailing "/"
Resolve(base, p) ==
    IF IsAbsolute(p) THEN Join(Normalize(Split(p)))
    ELSE IF p = Empty THEN Join(Normalize(Split(base)))
    ELSE Join(Normalize(Split(base \o <<Sl>> \o p)))

\* a is b or a descendant of b, segment by segment (true containment)
Under(a, b) ==
    LET sa == Normalize(Split(a))
        sb == Normalize(Split(b))
    IN  /\ Len(sb) <= Len(sa)
        /\ SubSeq(sa, 1, Len(sb)) = sb

(***************************************************************************)
(* The environment: home directory, working directory, Sparkle root        *)
(***************************************************************************)
HomeDir == <<Sl, "home", Sl, "u">>
Cwd == HomeDir
\* expandPath("~/Sparkle")
SparkleRoot == PathJoin(HomeDir, <<"Sparkle">>)
\* a sibling of the root whose name starts with the root's name
SiblingDir == PathJoin(HomeDir, <<"Sparkle", "-Dev">>)
EtcDir == <<Sl, "etc">>
SshDir == PathJoin(HomeDir, <<".ssh">>)

(***************************************************************************)
(* The disk.  A node is a regular file, a directory, a symbolic link (with *)
(* an absolute target) or absent.                                          *)
(***************************************************************************)
NoNode == [kind |-> "none", size |-> 0, data |-> Empty, target |-> Empty,
           mtime |-> 0, readable |-> TRUE]
DirNode == [NoNode EXCEPT !.kind = "dir"]
FileNode(content, t) ==
    [NoNode EXCEPT !.kind = "file", !.size = Len(content), !.data = content,
                   !.mtime = t]
LinkNode(to) == [NoNode EXCEPT !.kind = "link", !.target = to]

NodeAt(f, p) == IF p \in DOMAIN f THEN f[p] ELSE NoNode

\* how many symbolic links one path resolution follows before ELOOP
MaxLinkDepth == 2

\* a directory path with one more name (cur is canonical)
Child(cur, name) == IF cur = <<Sl>> THEN cur \o name ELSE cur \o <<Sl>> \o name

RECURSIVE RealAcc(_, _, _, _)
RealAcc(f, cur, rest, fuel) ==
    IF rest = <<>> THEN [err |-> "", path |-> cur]
    ELSE LET h == Head(rest)
             t == Tail(rest)
         IN  IF h = Empty \/ h = Dot THEN RealAcc(f, cur, t, fuel)
             ELSE IF h = DotDot THEN RealAcc(f, Dirname(cur), t, fuel)
             ELSE LET nxt == Child(cur, h)
                      n == NodeAt(f, nxt)
                  IN  IF n.kind = "link"
                      THEN IF fuel = 0 THEN [err |-> "ELOOP", path |-> nxt]
                           ELSE RealAcc(f, <<Sl>>, Split(n.target) \o t, fuel - 1)
                      ELSE IF t # <<>> /\ n.kind = "none"
                           THEN [err |-> "ENOENT", path |-> nxt]
                      ELSE IF t # <<>> /\ n.kind = "file"
                           THEN [err |-> "ENOTDIR", path |-> nxt]
                      ELSE RealAcc(f, nxt, t, fuel)

\* the kernel's resolution of a path string, every symbolic link followed:
\* the canonical path of the node it names, or the error of the walk
Real(f, p) == RealAcc(f, <<Sl>>, Split(p), MaxLinkDepth)

\* fs.stat(p): follows symbolic links, so the Stats it returns never describe
\* a link
Stat(f, p) ==
    LET r == Real(f, p)
        n == NodeAt(f, r.path)
    IN  IF r.err # "" THEN [err |-> r.err, real |-> r.path, isFile |-> FALSE,
                            isDirectory |-> FALSE, isSymbolicLink |-> FALSE,
                            size |-> 0, mtime |-> 0]
        ELSE IF n.kind = "none"
             THEN [err |-> "ENOENT", real |-> r.path, isFile |-> FALSE,
                   isDirectory |-> FALSE, isSymbolicLink |-> FALSE,
                   size |-> 0, mtime |-> 0]
        ELSE [err |-> "", real |-> r.path, isFile |-> n.kind = "file",
              isDirectory |-> n.kind = "dir",
              isSymbolicLink |-> n.kind = "link",
              size |-> n.size, mtime |-> n.mtime]

\* the names on disk, outside and inside the Sparkle root
NotesTxt == PathJoin(SparkleRoot, <<"notes", ".txt">>)
EmptyTxt == PathJoin(SparkleRoot, <<"empty", ".txt">>)
BigBin == PathJoin(SparkleRoot, <<"big", ".bin">>)
DocsDir == PathJoin(SparkleRoot, <<"docs">>)
PlanMd == PathJoin(DocsDir, <<"plan", ".md">>)
LinkTxt == PathJoin(SparkleRoot, <<"link", ".txt">>)
NewTxt == PathJoin(SparkleRoot, <<"new", ".txt">>)
OutsideTxt == PathJoin(HomeDir, <<"outside", ".txt">>)
EvilTxt == PathJoin(HomeDir, <<"evil", ".txt">>)
SecretTxt == PathJoin(SiblingDir, <<"secret", ".txt">>)
SiblingNew == PathJoin(SiblingDir, <<"new">>)
Passwd == PathJoin(EtcDir, <<"passwd">>)
EtcGhost == PathJoin(EtcDir, <<"ghost">>)
IdRsa == PathJoin(SshDir, <<"id_rsa">>)
InboxDir == PathJoin(SparkleRoot, <<"inbox">>)
InboxSecret == PathJoin(InboxDir, <<"secret", ".txt">>)
LootDir == PathJoin(HomeDir, <<"loot">>)
HiddenDir == PathJoin(SparkleRoot, <<".cache">>)
HiddenTmp == PathJoin(HiddenDir, <<"tmp", ".txt">>)
ShotPng == PathJoin(SparkleRoot, <<"Screenshot", ".png">>)
\* new Date().toISOString().split("T")[0]
Today == "2024-01-01"
EnhancedShot ==
    PathJoin(SparkleRoot, <<"enhanced_", Today, "_", "Screenshot", ".png">>)
\* path.join(sparkleDir, "README.txt"), index.ts line 635
welcomePath == PathJoin(SparkleRoot, <<"README", ".txt">>)

\* the order in which the kernel enumerates directory entries; these are all
\* the canonical paths the model's disk holds
EnumOrder ==
    << <<Sl>>, <<Sl, "home">>, HomeDir, SparkleRoot, NotesTxt, EmptyTxt, BigBin,
       DocsDir, PlanMd, LinkTxt, NewTxt, InboxDir, InboxSecret,
       HiddenDir, HiddenTmp, ShotPng, EnhancedShot, welcomePath,
       OutsideTxt, EvilTxt, LootDir, SiblingDir,
       SecretTxt, SiblingNew, EtcDir, Passwd, EtcGhost, SshDir, IdRsa >>
Paths == {EnumOrder[i] : i \in 1..Len(EnumOrder)}

\* the largest file of the fixture, in bytes
MaxSize == 3

RECURSIVE Bytes(_)
Bytes(n) == IF n = 0 THEN Empty ELSE <<"x">> \o Bytes(n - 1)

\* a user's disk before the server starts
DiskFixture ==
    [p \in Paths |->
        IF p \in {<<Sl>>, <<Sl, "home">>, HomeDir, SparkleRoot, DocsDir,
                  SiblingDir, EtcDir, SshDir} THEN DirNode
        ELSE IF p = NotesTxt THEN FileNode(<<"budget">>, 0)
        ELSE IF p = EmptyTxt THEN FileNode(Empty, 0)
        ELSE IF p = BigBin THEN FileNode(Bytes(MaxSize), 0)
        ELSE IF p = PlanMd THEN FileNode(<<"plan", " ", "q3">>, 0)
        ELSE IF p = LinkTxt THEN LinkNode(OutsideTxt)
        ELSE IF p = OutsideTxt THEN FileNode(<<"private">>, 0)
        ELSE IF p = SecretTxt THEN FileNode(<<"secret">>, 0)
        ELSE IF p = Passwd THEN FileNode(<<"root", ":", "x">>, 0)
        ELSE IF p = IdRsa THEN FileNode(<<"key">>, 0)
        ELSE NoNode]

(***************************************************************************)
(* PathValidator (security.ts)                                             *)
(***************************************************************************)
\* an optional field of SecurityConfig: undefined, or a value
Undefined(v) == [defined |-> FALSE, value |-> v]
Some(v) == [defined |-> TRUE, value |-> v]

\* the largest configured maxFileSize the model tries
MaxFileSizeBound == 2

defaultAllowedPaths ==
    << HomeDir,
       PathJoin(HomeDir, <<"Documents">>),
       PathJoin(HomeDir, <<"Downloads">>),
       PathJoin(HomeDir, <<"Desktop">>),
       PathJoin(HomeDir, <<"Sparkle">>) >>

defaultBlockedPaths ==
    << <<Sl, "etc">>,
       <<Sl, "sys">>,
       <<Sl, "proc">>,
       <<Sl, "dev">>,
       <<Sl, "private", Sl, "etc">>,
       <<Sl, "private", Sl, "var">>,
       <<Sl, "System">>,
       <<Sl, "Library", Sl, "Security">>,
       PathJoin(HomeDir, <<".ssh">>),
       PathJoin(HomeDir, <<".gnupg">>),
       PathJoin(HomeDir, <<".aws">>),
       PathJoin(HomeDir, <<".config", Sl, "gcloud">>) >>

\* the configurations a PathValidator is constructed with
Configs ==
    [ allowedPaths : {Undefined(<<>>), Some(<<SparkleRoot>>)},
      blockedPaths : {Undefined(<<>>), Some(<<DocsDir>>)},
      maxFileSize : {Undefined(0)} \cup {Some(n) : n \in 0..MaxFileSizeBound},
      allowSymlinks : {Undefined(FALSE), Some(FALSE), Some(TRUE)} ]

\* the configuration the server constructs its validator with
ServerConfig ==
    [ allowedPaths |-> Some(<<SparkleRoot>>),
      blockedPaths |-> Undefined(<<>>),
      maxFileSize |-> Some(MaxFileSizeBound),
      allowSymlinks |-> Some(FALSE) ]

\* getBlockedPaths / the list isPathBlocked builds
BlockedPaths(cfg) ==
    defaultBlockedPaths \o
        (IF cfg.blockedPaths.defined THEN cfg.blockedPaths.value ELSE <<>>)

\* getAllowedPaths / the list isPathAllowed builds
AllowedPaths(cfg) ==
    IF cfg.allowedPaths.defined THEN cfg.allowedPaths.value
    ELSE defaultAllowedPaths

isPathBlocked(cfg, checkPath) ==
    LET blockedPaths == BlockedPaths(cfg)
    IN  \E i \in 1..Len(blockedPaths) :
            StartsWith(checkPath, Resolve(Cwd, blockedPaths[i]))

isPathAllowed(cfg, checkPath) ==
    LET allowedPaths == AllowedPaths(cfg)
    IN  \E i \in 1..Len(allowedPaths) :
            StartsWith(checkPath, Resolve(Cwd, allowedPaths[i]))

\* !this.config.allowSymlinks && stats.isSymbolicLink()
SymlinkRejected(cfg, stats) ==
    /\ ~(cfg.allowSymlinks.defined /\ cfg.allowSymlinks.value)
    /\ stats.isSymbolicLink

\* the size check with >= in place of >
TooLarge_Mut(cfg, stats) ==
    /\ stats.isFile
    /\ cfg.maxFileSize.defined /\ cfg.maxFileSize.value # 0
    /\ stats.size >= cfg.maxFileSize.value

\* stats.isFile() && this.config.maxFileSize && stats.size > maxFileSize
TooLarge(cfg, stats) ==
    /\ stats.isFile
    /\ cfg.maxFileSize.defined /\ cfg.maxFileSize.value # 0
    /\ stats.size > cfg.maxFileSize.value

\* validatePath(requestedPath): the resolved path, or the error thrown
validatePath(f, cfg, requestedPath) ==
    LET absolutePath == Resolve(Cwd, requestedPath)
        stats == Stat(f, absolutePath)
        Throw(k) == [kind |-> k, value |-> Empty]
    IN  IF stats.err = "ENOENT" THEN Throw("NotFound")
        ELSE IF stats.err # "" THEN Throw("IOError")
        ELSE IF SymlinkRejected(cfg, stats) THEN Throw("SymlinkDenied")
        ELSE IF isPathBlocked(cfg, absolutePath) THEN Throw("Blocked")
        ELSE IF ~isPathAllowed(cfg, absolutePath) THEN Throw("NotAllowed")
        ELSE IF TooLarge(cfg, stats) THEN Throw("TooLarge")
        ELSE [kind |-> "ok", value |-> absolutePath]

\* the errors the design calls AccessDenied
AccessDeniedKinds == {"SymlinkDenied", "Blocked", "NotAllowed"}

\* the paths callers ask the validator about
ValidatorRequests ==
    { SparkleRoot, NotesTxt, EmptyTxt, BigBin, DocsDir, PlanMd, LinkTxt, NewTxt,
      OutsideTxt, SiblingDir, SecretTxt, Passwd, EtcGhost, IdRsa, HomeDir,
      <<"Sparkle", Sl, "notes", ".txt">>,
      SparkleRoot \o <<Sl, "..", Sl, "outside", ".txt">>,
      SparkleRoot \o <<Sl, "..", Sl, "Sparkle", "-Dev", Sl, "secret", ".txt">>,
      DocsDir \o <<Sl, "..", Sl, "notes", ".txt">>,
      SparkleRoot \o <<Sl, "..", Sl, "..", Sl, "..", Sl, "etc", Sl, "passwd">> }

NoResult == [req |-> Empty, kind |-> "none", value |-> Empty]
NoToolResult == [op |-> "none", args |-> <<>>, kind |-> "none", out |-> <<>>,
                 touched |-> {}]

\* a caller validates a path
ValidatePathCall(req) ==
    /\ vres' = [req |-> req] @@ validatePath(fs, config, req)
    /\ UNCHANGED <<fs, config, toolVars, indexVars>>

\* the server's handlers, idle: no call made, no request recorded
ToolsIdle ==
    /\ tres = NoToolResult
    /\ requests = [id \in {"get_files", "search"} |-> <<>>]
    /\ now = 0
    /\ mutations = 0

\* a FileMetadata with its optional fields undefined
NoMeta == [path |-> Empty, name |-> Empty, size |-> 0, modified |-> 0,
           type |-> "", hasContent |-> FALSE, content |-> Empty,
           hasSummary |-> FALSE, summary |-> Empty,
           hasEmbedding |-> FALSE, embedding |-> Empty]

\* the directory index, not started
IndexIdle ==
    /\ initPc = "none"
    /\ walk = [pending |-> Empty, frames |-> <<>>, files |-> <<>>]
    /\ scan = [pos |-> 0, pc |-> "none", meta |-> NoMeta]
    /\ fileIndex = <<>>
    /\ indexReady = FALSE
    /\ watcher = "none"
    /\ events = <<>>
    /\ tasks = <<>>
    /\ queries = <<>>
    /\ userOps = 0

\* the search engine, not called yet
SearchIdle == searches = <<>>

\* no run of ensureSparkleFolder recorded
StartupIdle == startups = <<>>

\* no scoring function called on its own
ScoringIdle == scorings = <<>>

InitValidator ==
    /\ fs = DiskFixture
    /\ config \in Configs
    /\ vres = NoResult
    /\ ToolsIdle
    /\ IndexIdle
    /\ SearchIdle
    /\ StartupIdle
    /\ ScoringIdle

NextValidator == \E req \in ValidatorRequests : ValidatePathCall(req)

SpecValidator == InitValidator /\ [][NextValidator]_vars

(***************************************************************************)
(* Claims about PathValidator, checked under SpecValidator                 *)
(***************************************************************************)
\* the canonical absolute form of the last requested path
VAbs == Resolve(Cwd, vres.req)
VCalled == vres.kind # "none"
\* truly inside an allowed root / under a blocked prefix, segment by segment
VInsideAllowed ==
    \E i \in 1..Len(AllowedPaths(config)) :
        Under(VAbs, Resolve(Cwd, AllowedPaths(config)[i]))
VUnderBlocked ==
    \E i \in 1..Len(BlockedPaths(config)) :
        Under(VAbs, Resolve(Cwd, BlockedPaths(config)[i]))

\* C1: validatePath fails with an access-denied error for every existing
\* path whose canonical absolute form is neither an allowed root nor a
\* descendant of one (".." inputs and directories that only share an allowed
\* root's name as a string prefix included), and returns the resolved path
\* only for paths inside an allowed root.
C1_OutsideAllowedDenied ==
    VCalled =>
        /\ (Stat(fs, VAbs).err = "" /\ ~VInsideAllowed)
              => vres.kind \in AccessDeniedKinds
        /\ vres.kind = "ok" => (vres.value = VAbs /\ VInsideAllowed)

\* C2: block precedence.  For every requested path under a block-list prefix,
\* default or configured, validatePath fails with an access-denied error,
\* whether or not the path is also allowed and whether or not it exists; it
\* never returns a path and never reports another kind of error.
C2_BlockedAlwaysDenied ==
    (VCalled /\ VUnderBlocked) => vres.kind \in AccessDeniedKinds

\* C3: with symbolic links disallowed (allowSymlinks false or unset),
\* validatePath fails for every path that is a symbolic link, in particular a
\* link inside the allowed root whose target is outside it.
C3_SymlinkRejected ==
    ( /\ VCalled
      /\ ~(config.allowSymlinks.defined /\ config.allowSymlinks.value)
      /\ NodeAt(fs, VAbs).kind = "link" )
        => vres.kind # "ok"

\* the case of C4: a regular file inside an allowed root, under no blocked
\* prefix
C4_Case ==
    /\ VCalled
    /\ NodeAt(fs, VAbs).kind = "file"
    /\ Real(fs, VAbs).path = VAbs
    /\ VInsideAllowed
    /\ ~isPathBlocked(config, VAbs)

\* C4 as stated: for such a file validatePath fails with a too-large error
\* exactly when its size is strictly greater than the configured maxFileSize
\* and succeeds otherwise; directories are never rejected for size.
C4_SizeCeilingAsStated ==
    /\ (C4_Case /\ config.maxFileSize.defined) =>
          vres.kind = (IF NodeAt(fs, VAbs).size > config.maxFileSize.value
                       THEN "TooLarge" ELSE "ok")
    /\ (VCalled /\ NodeAt(fs, VAbs).kind = "dir") => vres.kind # "TooLarge"

\* C4 amended: the ceiling binds only when maxFileSize is configured and not
\* zero; then the file is too large exactly when its size is strictly greater
\* than maxFileSize.  With maxFileSize unset or 0 no file is rejected for
\* size.  Directories are never rejected for size.
C4_SizeCeiling ==
    /\ C4_Case =>
          vres.kind =
            (IF /\ config.maxFileSize.defined
                /\ config.maxFileSize.value # 0
                /\ NodeAt(fs, VAbs).size > config.maxFileSize.value
             THEN "TooLarge" ELSE "ok")
    /\ (VCalled /\ NodeAt(fs, VAbs).kind = "dir") => vres.kind # "TooLarge"

\* a file larger than the ceiling was rejected, while a file of exactly the
\* ceiling's size is on disk
C4_Witness ==
    /\ C4_Case
    /\ vres.kind = "TooLarge"
    /\ config.maxFileSize.value < NodeAt(fs, VAbs).size
    /\ \E p \in Paths : /\ NodeAt(fs, p).kind = "file"
                        /\ NodeAt(fs, p).size = config.maxFileSize.value

(***************************************************************************)
(* Disk operations of fs/promises used by the server                       *)
(***************************************************************************)
\* the last segment of a path (path.basename)
Basename(p) ==
    LET segs == Normalize(Split(p))
    IN  IF segs = <<>> THEN Empty ELSE segs[Len(segs)]

Put(f, p, node) == [q \in DOMAIN f \cup {p} |-> IF q = p THEN node ELSE f[q]]

\* a path with the links of its directory followed and its last name kept
\* (what rename and lstat look at)
RealParent(f, p) ==
    LET r == Real(f, Dirname(p))
    IN  IF r.err # "" THEN r
        ELSE [err |-> "", path |-> PathJoin(r.path, Basename(p))]

\* String.prototype.includes
Includes(str, sub) ==
    \E i \in 1..(Len(str) + 1) :
        /\ i + Len(sub) - 1 <= Len(str)
        /\ SubSeq(str, i, i + Len(sub) - 1) = sub

\* String.prototype.endsWith
EndsWith(str, suffix) ==
    /\ Len(suffix) <= Len(str)
    /\ SubSeq(str, Len(str) - Len(suffix) + 1, Len(str)) = suffix

\* toLowerCase, on the character groups the fixtures use
LowerChar(c) ==
    CASE c = "Sparkle" -> "sparkle"
      [] c = "IMG_" -> "img_"
      [] c = "README" -> "readme"
      [] c = "Screenshot" -> "screenshot"
      [] c = "Untitled" -> "untitled"
      [] OTHER -> c
ToLowerCase(str) == [i \in 1..Len(str) |-> LowerChar(str[i])]

\* the character groups that begin with "."
DotLeading == {".", "..", ".ssh", ".cache", ".txt", ".md", ".bin", ".jpg",
               ".png", ".gnupg", ".aws", ".config"}
\* name.startsWith(".")
StartsWithDot(name) == name # Empty /\ Head(name) \in DotLeading

\* path.dirname and path.basename of the paths of the disk
ParentOf == [q \in Paths |-> Dirname(q)]
NameOf == [q \in Paths |-> Basename(q)]

\* fs.readdir(p, {withFileTypes: true}): the entries of a directory, links
\* in the path followed, each entry typed as it is (a link is a link)
Readdir(f, p) ==
    LET r == Real(f, p)
        n == NodeAt(f, r.path)
        IsChild(q) == /\ ParentOf[q] = r.path
                      /\ q # r.path
                      /\ f[q].kind # "none"
        Entry(q) == [name |-> NameOf[q], kind |-> f[q].kind]
        kids == SelectSeq(EnumOrder, IsChild)
    IN  IF r.err # "" THEN [err |-> r.err, real |-> r.path, entries |-> <<>>]
        ELSE IF n.kind = "none"
             THEN [err |-> "ENOENT", real |-> r.path, entries |-> <<>>]
        ELSE IF n.kind # "dir"
             THEN [err |-> "ENOTDIR", real |-> r.path, entries |-> <<>>]
        ELSE IF ~n.readable
             THEN [err |-> "EACCES", real |-> r.path, entries |-> <<>>]
        ELSE [err |-> "", real |-> r.path,
              entries |-> [i \in 1..Len(kids) |-> Entry(kids[i])]]

\* fs.readFile(p): the content of a file, links followed
ReadFile(f, p) ==
    LET r == Real(f, p)
        n == NodeAt(f, r.path)
    IN  IF r.err # "" THEN [err |-> r.err, real |-> r.path, data |-> Empty]
        ELSE IF n.kind = "none"
             THEN [err |-> "ENOENT", real |-> r.path, data |-> Empty]
        ELSE IF n.kind = "dir"
             THEN [err |-> "EISDIR", real |-> r.path, data |-> Empty]
        ELSE IF ~n.readable
             THEN [err |-> "EACCES", real |-> r.path, data |-> Empty]
        ELSE [err |-> "", real |-> r.path, data |-> n.data]

RECURSIVE MkdirP(_, _)
\* fs.mkdir(p, {recursive: true}): creates every missing directory of p
MkdirP(f, p) ==
    IF Normalize(Split(p)) = <<>> THEN [err |-> "", fs |-> f]
    ELSE LET up == MkdirP(f, Dirname(p))
         IN  IF up.err # "" THEN up
             ELSE LET r == Real(up.fs, p)
                      n == NodeAt(up.fs, r.path)
                  IN  IF r.err # "" THEN [err |-> r.err, fs |-> up.fs]
                      ELSE IF n.kind = "dir" THEN up
                      ELSE IF n.kind = "none"
                           THEN [err |-> "", fs |-> Put(up.fs, r.path, DirNode)]
                      ELSE [err |-> "EEXIST", fs |-> up.fs]

\* fs.writeFile(p, content): creates or overwrites a file, links followed
WriteFile(f, p, content, t) ==
    LET r == Real(f, p)
        n == NodeAt(f, r.path)
    IN  IF r.err # "" THEN [err |-> r.err, fs |-> f]
        ELSE IF NodeAt(f, Dirname(r.path)).kind # "dir"
             THEN [err |-> "ENOENT", fs |-> f]
        ELSE IF n.kind = "dir" THEN [err |-> "EISDIR", fs |-> f]
        ELSE [err |-> "", fs |-> Put(f, r.path, FileNode(content, t))]

\* the paths of a subtree, and a path of it moved under another name
Subtree(f, p) == {q \in DOMAIN f : Under(q, p) /\ f[q].kind # "none"}
Rebase(q, from, to) == to \o SubSeq(q, Len(from) + 1, Len(q))

\* fs.rename(source, destination): the last name of either is not followed
Rename(f, source, destination) ==
    LET s == RealParent(f, source)
        d == RealParent(f, destination)
        ns == NodeAt(f, s.path)
        nd == NodeAt(f, d.path)
        moved == Subtree(f, s.path)
        Origin(q) == CHOOSE x \in moved : Rebase(x, s.path, d.path) = q
        landed == {Rebase(x, s.path, d.path) : x \in moved}
    IN  IF s.err # "" THEN [err |-> s.err, fs |-> f]
        ELSE IF d.err # "" THEN [err |-> d.err, fs |-> f]
        ELSE IF ns.kind = "none" THEN [err |-> "ENOENT", fs |-> f]
        ELSE IF NodeAt(f, Dirname(d.path)).kind # "dir"
             THEN [err |-> "ENOENT", fs |-> f]
        ELSE IF s.path = d.path THEN [err |-> "", fs |-> f]
        ELSE IF ns.kind = "dir" /\ Under(d.path, s.path)
             THEN [err |-> "EINVAL", fs |-> f]
        ELSE IF ns.kind # "dir" /\ nd.kind = "dir"
             THEN [err |-> "EISDIR", fs |-> f]
        ELSE IF ns.kind = "dir" /\ nd.kind \in {"file", "link"}
             THEN [err |-> "ENOTDIR", fs |-> f]
        ELSE IF ns.kind = "dir" /\ Subtree(f, d.path) \ {d.path} # {}
             THEN [err |-> "ENOTEMPTY", fs |-> f]
        ELSE [err |-> "",
              fs |-> [q \in DOMAIN f \cup landed |->
                        IF q \in landed THEN f[Origin(q)]
                        ELSE IF q \in moved THEN NoNode
                        ELSE f[q]]]

RECURSIVE CommonLen(_, _)
CommonLen(a, b) ==
    IF a = <<>> \/ b = <<>> \/ Head(a) # Head(b) THEN 0
    ELSE 1 + CommonLen(Tail(a), Tail(b))

RECURSIVE JoinRel(_)
JoinRel(segs) ==
    IF segs = <<>> THEN Empty
    ELSE IF Len(segs) = 1 THEN Head(segs)
    ELSE Head(segs) \o <<Sl>> \o JoinRel(Tail(segs))

\* path.relative(from, to), both absolute
Relative(from, to) ==
    LET a == Normalize(Split(from))
        b == Normalize(Split(to))
        k == CommonLen(a, b)
    IN  JoinRel([i \in 1..(Len(a) - k) |-> DotDot] \o SubSeq(b, k + 1, Len(b)))

(***************************************************************************)
(* RateLimiter (security.ts)                                               *)
(***************************************************************************)
\* new RateLimiter(100, 60000), scaled: requests per window, window in ticks
maxRequests == 2
windowMs == 2
\* the last instant of the clock
MaxTime == 2

\* checkLimit(identifier) at time t: the answer and the map afterwards
\* a checkLimit that refuses only above the limit
checkLimit_Mut(reqs, identifier, t) ==
    LET InWindow(time) == t - time < windowMs
        validRequests == SelectSeq(reqs[identifier], InWindow)
    IN  IF Len(validRequests) > maxRequests
        THEN [ok |-> FALSE, requests |-> reqs]
        ELSE [ok |-> TRUE,
              requests |-> [reqs EXCEPT
                               ![identifier] = Append(validRequests, t)]]
\* a checkLimit that records the call before it decides
checkLimit_MutRecord(reqs, identifier, t) ==
    LET InWindow(time) == t - time < windowMs
        validRequests == SelectSeq(reqs[identifier], InWindow)
    IN  [ok |-> Len(validRequests) < maxRequests,
         requests |-> [reqs EXCEPT ![identifier] = Append(validRequests, t)]]
checkLimit(reqs, identifier, t) ==
    LET InWindow(time) == t - time < windowMs
        validRequests == SelectSeq(reqs[identifier], InWindow)
    IN  IF Len(validRequests) >= maxRequests
        THEN [ok |-> FALSE, requests |-> reqs]
        ELSE [ok |-> TRUE,
              requests |-> [reqs EXCEPT ![identifier] = Append(validRequests, t)]]

\* time passes
Tick ==
    /\ now < MaxTime
    /\ now' = now + 1
    /\ UNCHANGED <<fs, validatorVars, tres, requests, mutations, indexVars>>

(***************************************************************************)
(* The file tools of the server (index.ts)                                 *)
(***************************************************************************)
\* how many tool calls of one behaviour change the disk
MaxMutations == 1

ExtChars == {".txt", ".md", ".bin", ".jpg", ".png", ".pdf", ".json", ".csv",
             ".log"}
\* path.extname
Extname(p) ==
    LET b == Basename(p)
    IN  IF Len(b) >= 2 /\ b[Len(b)] \in ExtChars THEN <<b[Len(b)]>> ELSE Empty

\* the extensions handleReadFile returns as base64, among those of the model
binaryExtensions == {<<".pdf">>, <<".jpg">>}

ToolResult(op, args, kind, out, touched) ==
    [op |-> op, args |-> args, kind |-> kind, out |-> out, touched |-> touched]

\* the guard every handler but handleWriteFile and handleCreateDirectory
\* applies: fullPath.startsWith(sparkleRoot)
InsideSparkle(fullPath) == StartsWith(fullPath, SparkleRoot)

\* a handler's effect on the disk, within the budget of disk changes
Commit(newFs) ==
    /\ newFs # fs => mutations < MaxMutations
    /\ fs' = newFs
    /\ mutations' = IF newFs # fs THEN mutations + 1 ELSE mutations

handleWriteFile(filePath, content) ==
    LET fullPath == Resolve(SparkleRoot, filePath)
        made == MkdirP(fs, Dirname(fullPath))
        written == WriteFile(made.fs, fullPath, content, now)
    IN  /\ IF made.err # ""
           THEN /\ Commit(made.fs)
                /\ tres' = ToolResult("write_file", <<filePath>>, "Error",
                                      <<>>, {})
           ELSE /\ Commit(written.fs)
                /\ tres' = ToolResult("write_file", <<filePath>>,
                                      IF written.err = "" THEN "ok" ELSE "Error",
                                      <<>>, {})
        /\ UNCHANGED <<validatorVars, requests, now, indexVars>>

handleCreateDirectory(dirPath) ==
    LET fullPath == Resolve(SparkleRoot, dirPath)
        made == MkdirP(fs, fullPath)
    IN  /\ Commit(made.fs)
        /\ tres' = ToolResult("create_directory", <<dirPath>>,
                              IF made.err = "" THEN "ok" ELSE "Error", <<>>, {})
        /\ UNCHANGED <<validatorVars, requests, now, indexVars>>

handleMoveFile(source, destination) ==
    LET sourcePath == Resolve(SparkleRoot, source)
        destPath == Resolve(SparkleRoot, destination)
        made == MkdirP(fs, Dirname(destPath))
        moved == Rename(made.fs, sourcePath, destPath)
        args == <<source, destination>>
    IN  /\ IF ~InsideSparkle(sourcePath) \/ ~InsideSparkle(destPath)
           THEN /\ Commit(fs)
                /\ tres' = ToolResult("move_file", args, "AccessDenied", <<>>, {})
           ELSE IF made.err # ""
           THEN /\ Commit(made.fs)
                /\ tres' = ToolResult("move_file", args, "Error", <<>>, {})
           ELSE /\ Commit(moved.fs)
                /\ tres' = ToolResult("move_file", args,
                                      IF moved.err = "" THEN "ok" ELSE "Error",
                                      <<>>, {})
        /\ UNCHANGED <<validatorVars, requests, now, indexVars>>

handleReadFile(filePath) ==
    LET fullPath == Resolve(SparkleRoot, filePath)
        isBinary == Extname(fullPath) \in binaryExtensions
        got == ReadFile(fs, fullPath)
        text == IF isBinary THEN <<"[Binary file]">> \o got.data ELSE got.data
    IN  /\ tres' =
              IF ~InsideSparkle(fullPath)
              THEN ToolResult("read_file", <<filePath>>, "AccessDenied", <<>>, {})
              ELSE IF got.err # ""
              THEN ToolResult("read_file", <<filePath>>, "Error", <<>>, {})
              ELSE ToolResult("read_file", <<filePath>>, "ok", text, {got.real})
        /\ UNCHANGED <<fs, validatorVars, requests, now, mutations, indexVars>>

handleListDirectory(dirPath) ==
    LET fullPath == IF dirPath # Empty THEN Resolve(SparkleRoot, dirPath)
                    ELSE SparkleRoot
        stats == Stat(fs, fullPath)
        listed == Readdir(fs, fullPath)
        Line(e) == (IF e.kind = "dir" THEN <<"[DIR]", " ">>
                    ELSE <<"[FILE]", " ">>) \o e.name
        formatted == [i \in 1..Len(listed.entries) |-> Line(listed.entries[i])]
    IN  /\ tres' =
              IF ~InsideSparkle(fullPath)
              THEN ToolResult("list_directory", <<dirPath>>, "AccessDenied",
                              <<>>, {})
              ELSE IF stats.err # "" \/ ~stats.isDirectory
              THEN ToolResult("list_directory", <<dirPath>>, "Error", <<>>,
                              IF stats.err = "" THEN {stats.real} ELSE {})
              ELSE IF listed.err # ""
              THEN ToolResult("list_directory", <<dirPath>>, "Error", <<>>,
                              {stats.real})
              ELSE ToolResult("list_directory", <<dirPath>>, "ok",
                              IF formatted # <<>> THEN formatted
                              ELSE <<<<"Empty directory">>>>,
                              {stats.real})
        /\ UNCHANGED <<fs, validatorVars, requests, now, mutations, indexVars>>

handleGetFileInfo(filePath) ==
    LET fullPath == Resolve(SparkleRoot, filePath)
        stats == Stat(fs, fullPath)
        info == << [path |-> filePath, size |-> stats.size,
                    type |-> IF stats.isDirectory THEN "directory" ELSE "file",
                    modified |-> stats.mtime] >>
    IN  /\ tres' =
              IF ~InsideSparkle(fullPath)
              THEN ToolResult("get_file_info", <<filePath>>, "AccessDenied",
                              <<>>, {})
              ELSE IF stats.err # ""
              THEN ToolResult("get_file_info", <<filePath>>, "Error", <<>>, {})
              ELSE ToolResult("get_file_info", <<filePath>>, "ok", info,
                              {stats.real})
        /\ UNCHANGED <<fs, validatorVars, requests, now, mutations, indexVars>>

RECURSIVE GlobMatch(_, _)
\* new RegExp('^' + pattern.replace(/\*/g, '.*') + '$').test(name)
GlobMatch(pattern, name) ==
    IF pattern = Empty THEN name = Empty
    ELSE IF Head(pattern) = "*"
         THEN \E k \in 0..Len(name) :
                 GlobMatch(Tail(pattern), SubSeq(name, k + 1, Len(name)))
    ELSE /\ name # Empty
         /\ Head(name) = Head(pattern)
         /\ GlobMatch(Tail(pattern), Tail(name))

\* the pattern test of recursiveSearch
PatternMatches(pattern, name) ==
    IF pattern = <<"*">> THEN TRUE
    ELSE IF Len(pattern) >= 2 /\ pattern[1] = "*" /\ pattern[2] \in DotLeading
         THEN EndsWith(name, Tail(pattern))
    ELSE IF \E i \in 1..Len(pattern) : pattern[i] = "*"
         THEN GlobMatch(ToLowerCase(pattern), ToLowerCase(name))
    ELSE Includes(ToLowerCase(name), ToLowerCase(pattern))

RECURSIVE recursiveSearch(_, _, _, _)
RECURSIVE SearchEntries(_, _, _, _, _)
\* the loop of recursiveSearch over the entries of one directory
SearchEntries(f, searchPath, entries, pattern, excludePatterns) ==
    IF entries = <<>> THEN [results |-> <<>>, visited |-> {}]
    ELSE LET entry == Head(entries)
             fullPath == PathJoin(searchPath, entry.name)
             relativePath == Relative(SparkleRoot, fullPath)
             isExcluded ==
                 \E i \in 1..Len(excludePatterns) :
                     \/ Includes(entry.name, excludePatterns[i])
                     \/ Includes(relativePath, excludePatterns[i])
             rest == SearchEntries(f, searchPath, Tail(entries), pattern,
                                   excludePatterns)
             sub == IF entry.kind = "dir" /\ ~StartsWithDot(entry.name)
                    THEN recursiveSearch(f, fullPath, pattern, excludePatterns)
                    ELSE [results |-> <<>>, visited |-> {}]
         IN  IF isExcluded THEN rest
             ELSE [results |->
                      (IF PatternMatches(pattern, entry.name)
                       THEN <<relativePath>> ELSE <<>>)
                      \o sub.results \o rest.results,
                   visited |-> sub.visited \cup rest.visited]

\* recursiveSearch(searchPath, pattern, excludePatterns): the relative paths
\* that match, and the directories it enumerated
recursiveSearch(f, searchPath, pattern, excludePatterns) ==
    LET listed == Readdir(f, searchPath)
        found == SearchEntries(f, searchPath, listed.entries, pattern,
                               excludePatterns)
    IN  IF listed.err # "" THEN [results |-> <<>>, visited |-> {}]
        ELSE [results |-> found.results,
              visited |-> {listed.real} \cup found.visited]

handleSearchFiles(searchPath, pattern, excludePatterns) ==
    LET args == <<searchPath, pattern>>
        limit == checkLimit(requests, "search", now)
        fullSearchPath ==
            IF searchPath # Empty /\ IsAbsolute(searchPath) THEN searchPath
            ELSE IF searchPath # Empty THEN Resolve(SparkleRoot, searchPath)
            ELSE SparkleRoot
        stats == Stat(fs, fullSearchPath)
        found == recursiveSearch(fs, fullSearchPath, pattern, excludePatterns)
    IN  /\ requests' = limit.requests
        /\ tres' =
              IF ~limit.ok
              THEN ToolResult("search_files", args, "RateLimited", <<>>, {})
              ELSE IF ~InsideSparkle(fullSearchPath)
              THEN ToolResult("search_files", args, "AccessDenied", <<>>, {})
              ELSE IF stats.err # ""
              THEN ToolResult("search_files", args, "NotFound", <<>>, {})
              ELSE ToolResult("search_files", args, "ok", found.results,
                              {stats.real} \cup found.visited)
        /\ UNCHANGED <<fs, validatorVars, now, mutations, indexVars>>

\* what clients send
RelOutside == <<"..", Sl, "outside", ".txt">>
RelEvil == <<"..", Sl, "evil", ".txt">>
RelSecret == <<"..", Sl, "Sparkle", "-Dev", Sl, "secret", ".txt">>
RelSibling == <<"..", Sl, "Sparkle", "-Dev">>
RelNotes == <<"notes", ".txt">>
RelNew == <<"new", ".txt">>
RelLink == <<"link", ".txt">>
AbsDotDotEtc == SparkleRoot \o <<Sl, "..", Sl, "..", Sl, "..", Sl, "etc">>

WriteRequests == {RelNew, RelEvil, RelNotes}
WriteContents == {<<"w">>}
MkdirRequests == {<<"inbox">>, <<"..", Sl, "loot">>, RelNotes}
MoveRequests ==
    { <<RelNotes, RelNew>>, <<RelNotes, RelEvil>>, <<RelOutside, RelNew>>,
      <<RelSecret, <<"inbox", Sl, "secret", ".txt">> >>,
      <<RelNotes, RelSibling \o <<Sl, "new">> >> }
ReadRequests == {RelNotes, RelOutside, RelSecret, <<"docs">>, RelLink,
                 SparkleRoot \o <<Sl, "..">> \o <<Sl, "outside", ".txt">>}
ListRequests == {Empty, <<"docs">>, <<"..">>, RelSibling, RelNotes}
InfoRequests == {RelNotes, RelOutside, RelSecret, <<"ghost">>}
SearchRequests ==
    { <<Empty, <<"*">>, <<>> >>,
      <<Empty, <<"*", ".txt">>, << <<"docs">> >> >>,
      <<Empty, <<"plan", "*">>, <<>> >>,
      << <<"docs">>, <<"plan">>, <<>> >>,
      << <<"..">>, <<"*">>, <<>> >>,
      <<RelSibling, <<"*", ".txt">>, <<>> >>,
      <<AbsDotDotEtc, <<"*">>, <<>> >>,
      << <<"ghost">>, <<"*">>, <<>> >> }

InitTools ==
    /\ fs = DiskFixture
    /\ config = ServerConfig
    /\ vres = NoResult
    /\ ToolsIdle
    /\ IndexIdle
    /\ SearchIdle
    /\ StartupIdle
    /\ ScoringIdle

NextTools ==
    \/ Tick
    \/ \E p \in WriteRequests, c \in WriteContents : handleWriteFile(p, c)
    \/ \E p \in MkdirRequests : handleCreateDirectory(p)
    \/ \E m \in MoveRequests : handleMoveFile(m[1], m[2])
    \/ \E p \in ReadRequests : handleReadFile(p)
    \/ \E p \in ListRequests : handleListDirectory(p)
    \/ \E p \in InfoRequests : handleGetFileInfo(p)
    \/ \E r \in SearchRequests : handleSearchFiles(r[1], r[2], r[3])

SpecTools == InitTools /\ [][NextTools]_vars

\* the disk never holds a path outside the enumeration order
DiskInUniverse == DOMAIN fs = Paths

(***************************************************************************)
(* Claims about the file tools, checked under SpecTools                    *)
(***************************************************************************)
\* the canonical form of the i-th path argument of the last tool call
TArg(i) == Resolve(SparkleRoot, tres.args[i])
OutsideRoot(p) == ~Under(p, SparkleRoot)

\* C5: every write_file, create_directory and move_file request whose target
\* (for move_file: source or destination) resolves outside the Sparkle root
\* is rejected with an access-denied error, and after any sequence of tool
\* calls nothing outside the root has been created, overwritten or moved.
C5_WritesStayInside ==
    /\ (tres.op \in {"write_file", "create_directory"} /\ OutsideRoot(TArg(1)))
          => tres.kind = "AccessDenied"
    /\ (tres.op = "move_file" /\ (OutsideRoot(TArg(1)) \/ OutsideRoot(TArg(2))))
          => tres.kind = "AccessDenied"
    /\ \A p \in Paths : OutsideRoot(p) => fs[p] = DiskFixture[p]

\* C6: every read_file, list_directory, get_file_info and search_files
\* request whose path canonicalizes outside the Sparkle root (a relative path
\* with "..", an absolute path with ".." segments, a sibling directory whose
\* name starts with the root's name) is rejected with an access-denied error
\* (or refused by the rate limiter before that), and the handler reads or
\* enumerates no location outside the root.
C6_ReadsStayInside ==
    ( /\ tres.op \in {"read_file", "list_directory", "get_file_info",
                      "search_files"}
      /\ OutsideRoot(TArg(1)) )
        => /\ tres.kind \in {"AccessDenied", "RateLimited"}
           /\ \A q \in tres.touched : ~OutsideRoot(q)

(***************************************************************************)
(* SparkleFolder: the index of the files of the Sparkle folder            *)
(***************************************************************************)
\* the folder a user has before the server starts: a hidden directory and a
\* text file the server may not read beside the files of the fixture
IndexFixture ==
    [p \in Paths |->
        IF p = HiddenDir THEN DirNode
        ELSE IF p = HiddenTmp THEN FileNode(<<"tmp">>, 0)
        ELSE IF p = EmptyTxt
             THEN [FileNode(<<"hidden">>, 0) EXCEPT !.readable = FALSE]
        ELSE IF p = PlanMd THEN FileNode(<<"plan", "\n", " ", "q3">>, 0)
        ELSE DiskFixture[p]]

\* the same disk with the folder missing, with a regular file in its place,
\* and with a folder the server may not list
NoFolder == [p \in Paths |-> IF Under(p, SparkleRoot) THEN NoNode
                             ELSE IndexFixture[p]]
FolderIsFile == [NoFolder EXCEPT ![SparkleRoot] = FileNode(<<"x">>, 0)]
FolderLocked ==
    [IndexFixture EXCEPT ![SparkleRoot] = [DirNode EXCEPT !.readable = FALSE]]
IndexDisks == {IndexFixture, NoFolder, FolderIsFile, FolderLocked}

\* the length of the content sample and of the summary, in character groups
\* (5000 and 200 characters in the source)
ContentSliceLen == 2
SummarySliceLen == 3
\* the lines a summary is made of
SummaryLines == 3

\* String.prototype.slice(0, n)
Slice(str, n) == SubSeq(str, 1, IF n < Len(str) THEN n ELSE Len(str))

RECURSIVE SplitOnAcc(_, _, _, _)
SplitOnAcc(str, sep, cur, acc) ==
    IF str = <<>> THEN Append(acc, cur)
    ELSE IF Head(str) = sep THEN SplitOnAcc(Tail(str), sep, <<>>, Append(acc, cur))
    ELSE SplitOnAcc(Tail(str), sep, Append(cur, Head(str)), acc)
\* String.prototype.split(sep), sep being one character group
SplitOn(str, sep) == SplitOnAcc(str, sep, <<>>, <<>>)

RECURSIVE JoinWith(_, _)
\* Array.prototype.join(sep)
JoinWith(parts, sep) ==
    IF parts = <<>> THEN <<>>
    ELSE IF Len(parts) = 1 THEN parts[1]
    ELSE parts[1] \o <<sep>> \o JoinWith(Tail(parts), sep)

Whitespace == {" ", "\n", "\t"}
\* l.trim() is not the empty string
NotBlank(l) == \E i \in 1..Len(l) : l[i] \notin Whitespace

\* generateSummary: the separator it splits on is the two characters
\* backslash and n, which is not the line feed
generateSummary(content) ==
    LET lines == SelectSeq(SplitOn(content, "\\n"), NotBlank)
    IN  Slice(JoinWith(Slice(lines, SummaryLines), " "), SummarySliceLen)

getFileType(ext) ==
    CASE ext \in {<<".pdf">>, <<".doc">>, <<".docx">>} -> "document"
      [] ext \in {<<".txt">>, <<".md">>} -> "text"
      [] ext \in {<<".jpg">>, <<".png">>} -> "image"
      [] ext \in {<<".mp3">>, <<".wav">>} -> "audio"
      [] ext \in {<<".mp4">>, <<".mov">>} -> "video"
      [] ext \in {<<".csv">>, <<".json">>} -> "data"
      [] ext = <<".xlsx">> -> "spreadsheet"
      [] OTHER -> "other"

\* an isTextFile that takes every file for a text file
isTextFile_Mut(ext) == TRUE
isTextFile(ext) ==
    ext \in {<<".txt">>, <<".md">>, <<".json">>, <<".csv">>, <<".log">>}

\* String.prototype.charCodeAt: the code of a character group is its place
\* in this list, counted from the code of "a"
Alphabet == <<"notes", ".txt", "empty", "big", ".bin", "plan", ".md",
              "screenshot", "Screenshot", ".png", "new", "enhanced_", Today,
              "_", "budget", "hidden", "tmp", "q3", "w", "x", " ", "\n",
              "\\", "s", "zebra">>
CharCode(c) == 96 + (CHOOSE k \in 1..Len(Alphabet) : Alphabet[k] = c)

\* a 32-bit integer as its two 16-bit halves
Int32(hi, lo) == [hi |-> hi, lo |-> lo]
\* hash << 5: the 32 bits moved up by five places
ShiftLeft5(hash) ==
    Int32((hash.hi * 32 + (hash.lo * 32) \div 65536) % 65536,
          (hash.lo * 32) % 65536)
\* a - b and a + char; the sums are exact in the source and hash & hash
\* keeps their low 32 bits
Minus(a, b) ==
    Int32((a.hi - b.hi - (IF a.lo < b.lo THEN 1 ELSE 0) + 131072) % 65536,
          (a.lo - b.lo + 65536) % 65536)
Plus(a, char) ==
    Int32((a.hi + (a.lo + char) \div 65536) % 65536, (a.lo + char) % 65536)
\* one round of simpleHash: ((hash << 5) - hash) + char, cut to 32 bits by
\* hash & hash
HashRound(hash, char) == Plus(Minus(ShiftLeft5(hash), hash), char)
\* a simpleHash that returns the hash without Math.abs
HashAbs_Mut(hash) == hash
\* Math.abs of the signed 32-bit integer
HashAbs(hash) ==
    IF hash.hi < 32768 THEN hash
    ELSE IF hash.lo = 0 THEN Int32(65536 - hash.hi, 0)
    ELSE Int32(65535 - hash.hi, 65536 - hash.lo)
RECURSIVE HashFrom(_, _)
HashFrom(hash, str) ==
    IF str = Empty THEN hash
    ELSE HashFrom(HashRound(hash, CharCode(Head(str))), Tail(str))
simpleHash(str) == HashAbs(HashFrom(Int32(0, 0), str))

\* the number of components of an embedding
EmbeddingDims == 3
\* Math.sin and Math.cos in tenths, the angle counted in eighths of a turn
SinTable == <<0, 7, 10, 7, 0, -7, -10, -7>>
Sin(x) == SinTable[(x % 8) + 1]
Cos(x) == SinTable[((x + 2) % 8) + 1]

\* generateEmbedding: component i is sin(hash * i) * cos(hash / (i + 1)), in
\* tenths; the text hashed is the content, or the name if there is none
generateEmbedding(metadata) ==
    LET text == IF metadata.hasContent /\ metadata.content # Empty
                THEN metadata.content ELSE metadata.name
        hash == simpleHash(text)
    IN  [k \in 1..EmbeddingDims |->
            LET i == k - 1
            IN  (Sin((hash.lo % 8) * i)
                 * Cos(((hash.hi % (i + 1)) * 65536 + hash.lo) \div (i + 1)))
                \div 10]

RECURSIVE SumProducts(_, _, _)
SumProducts(a, b, n) ==
    IF n = 0 THEN 0 ELSE a[n] * b[n] + SumProducts(a, b, n - 1)

\* cosineSimilarity, in hundredths (cut toward zero)
cosineSimilarity(a, b) ==
    IF Len(a) # Len(b) THEN 0
    ELSE LET dotProduct == SumProducts(a, b, Len(a))
             normA == SumProducts(a, a, Len(a))
             normB == SumProducts(b, b, Len(a))
             size == CHOOSE c \in 0..100 :
                        /\ c * c * normA * normB
                              <= 10000 * dotProduct * dotProduct
                        /\ (c + 1) * (c + 1) * normA * normB
                              > 10000 * dotProduct * dotProduct
         IN  IF normA = 0 \/ normB = 0 THEN 0
             ELSE IF dotProduct < 0 THEN 0 - size ELSE size

RECURSIVE DropLeading(_, _)
DropLeading(str, c) ==
    IF str # Empty /\ Head(str) = c THEN DropLeading(Tail(str), c) ELSE str
RECURSIVE SplitWordsAcc(_, _, _)
SplitWordsAcc(str, cur, acc) ==
    IF str = Empty THEN Append(acc, cur)
    ELSE IF Len(str) >= 2 /\ str[1] = "\\" /\ str[2] = "s"
         THEN SplitWordsAcc(DropLeading(Tail(str), "s"), Empty,
                            Append(acc, cur))
         ELSE SplitWordsAcc(Tail(str), Append(cur, Head(str)), acc)
\* str.split(/\\s+/): the separator the pattern matches is a backslash
\* followed by one or more letters s
SplitWords(str) == SplitWordsAcc(str, Empty, <<>>)

\* how many of the words the text includes
Matches(words, text) ==
    Cardinality({k \in 1..Len(words) : Includes(text, words[k])})

\* the days of the recency bonus
RecentDays == 7

\* calculateRelevance, steps 2 and 3: what the keywords add to the score,
\* in thousandths
KeywordMatching(query, metadata) ==
    LET queryWords == SplitWords(ToLowerCase(query))
        nameWords == ToLowerCase(metadata.name)
        inName == Matches(queryWords, nameWords) * 300
        inContent == IF metadata.hasContent /\ metadata.content # Empty
                     THEN Matches(queryWords, ToLowerCase(metadata.content))
                          * 200
                     ELSE 0
    IN  inName + inContent

\* calculateRelevance, in thousandths; clock is Date.now() in days
calculateRelevance(query, metadata, queryEmbedding, fileEmbedding, clock) ==
    LET semantic == IF Len(fileEmbedding) > 0
                    THEN cosineSimilarity(queryEmbedding, fileEmbedding) * 5
                    ELSE 0
        daysSinceModified == clock - metadata.modified
        recency == IF daysSinceModified < RecentDays THEN 100 ELSE 0
        score == semantic + KeywordMatching(query, metadata) + recency
    IN  IF score < 1000 THEN score ELSE 1000

\* Array.prototype.sort with (a, b) => b.relevance - a.relevance: stable,
\* the larger relevance first
RECURSIVE InsertByRelevance(_, _)
InsertByRelevance(sorted, r) ==
    IF sorted = <<>> THEN <<r>>
    ELSE IF Head(sorted).relevance >= r.relevance
         THEN <<Head(sorted)>> \o InsertByRelevance(Tail(sorted), r)
         ELSE <<r>> \o sorted
\* a sort that leaves the results in the order of the index
SortByRelevance_Mut(results) == results
RECURSIVE SortByRelevance(_)
SortByRelevance(results) ==
    IF results = <<>> THEN <<>>
    ELSE InsertByRelevance(
             SortByRelevance(SubSeq(results, 1, Len(results) - 1)),
             results[Len(results)])

\* indexFile up to its first await: the stat and the metadata built from it
IndexFileStat(f, filePath) ==
    LET stats == Stat(f, filePath)
        ext == ToLowerCase(Extname(filePath))
    IN  [err |-> stats.err,
         read |-> isTextFile(ext),
         meta |-> [NoMeta EXCEPT !.path = filePath,
                                 !.name = Basename(filePath),
                                 !.size = stats.size,
                                 !.modified = stats.mtime,
                                 !.type = getFileType(ext)]]

\* indexFile after the read of a text file: a failed read is logged and the
\* metadata stays without content
IndexFileRead(f, metadata) ==
    LET r == ReadFile(f, metadata.path)
    IN  IF r.err # "" THEN metadata
        ELSE [metadata EXCEPT !.hasContent = TRUE,
                              !.content = Slice(r.data, ContentSliceLen),
                              !.hasSummary = TRUE,
                              !.summary = generateSummary(r.data)]

\* Map.prototype: the keys, has, set (an existing key keeps its place) and
\* delete, the map being the sequence of its values in insertion order
IndexKeys(idx) == {idx[i].path : i \in 1..Len(idx)}
IndexSet(idx, metadata) ==
    IF metadata.path \in IndexKeys(idx)
    THEN [i \in 1..Len(idx) |->
            IF idx[i].path = metadata.path THEN metadata ELSE idx[i]]
    ELSE Append(idx, metadata)
IndexDelete(idx, filePath) ==
    SelectSeq(idx, LAMBDA m : m.path # filePath)

\* an indexFile that stores the entry before its embedding is there
IndexFileDone_Mut(idx, metadata) == IndexSet(idx, metadata)
\* indexFile from the embedding to the end
IndexFileDone(idx, metadata) ==
    IndexSet(idx, [metadata EXCEPT !.hasEmbedding = TRUE,
                                   !.embedding = generateEmbedding(metadata)])

\* a needsBetterName whose Screenshot pattern is not anchored at the start
needsBetterName_Mut(metadata) ==
    \/ Includes(metadata.name, <<"Screenshot">>)
    \/ StartsWith(ToLowerCase(metadata.name), <<"untitled">>)
\* needsBetterName: the patterns written \\d+ in the source match a
\* backslash followed by the letter d, not digits
needsBetterName(metadata) ==
    LET name == metadata.name
    IN  \/ StartsWith(name, <<"IMG_", "\\", "d">>)
        \/ StartsWith(name, <<"DSC", "\\", "d">>)
        \/ StartsWith(name, <<"Screenshot">>)
        \/ StartsWith(name, <<"audio_recording">>)
        \/ StartsWith(name, <<"REC", "\\", "d">>)
        \/ StartsWith(ToLowerCase(name), <<"untitled">>)

\* enhanceFileName: the path the file is renamed to
EnhancedPath(filePath, metadata) ==
    PathJoin(Dirname(filePath), <<"enhanced_", Today, "_">> \o metadata.name)

RECURSIVE WalkResume(_, _)
\* walkDirectory from the return of a readdir to the next readdir or to the
\* return of the outermost call; a frame is a call suspended in its loop
WalkResume(frames, files) ==
    IF frames = <<>> THEN [pending |-> Empty, frames |-> <<>>, files |-> files]
    ELSE LET top == frames[Len(frames)]
             below == SubSeq(frames, 1, Len(frames) - 1)
         IN  IF top.rest = <<>> THEN WalkResume(below, files)
             ELSE LET entry == Head(top.rest)
                      fullPath == PathJoin(top.dir, entry.name)
                      next == Append(below, [top EXCEPT !.rest = Tail(top.rest)])
                  IN  IF entry.kind = "dir" /\ ~StartsWithDot(entry.name)
                      THEN [pending |-> fullPath, frames |-> next,
                            files |-> files]
                      ELSE IF entry.kind = "file"
                           THEN WalkResume(next, Append(files, fullPath))
                      ELSE WalkResume(next, files)

\* the calls and changes one behaviour of the index model holds
MaxQueries == 1
MaxUserOps == 2

\* the server process has not exited
Running == watcher # "closed"

otherVars ==
    <<config, vres, tres, requests, now, mutations, searches, startups,
      scorings>>

\* the events chokidar queues for a change of the disk, once it is subscribed
Emit(evs) == IF watcher = "watching" THEN events \o evs ELSE events

\* initialize, line 44: the root directory is created; a failure rejects the
\* promise of initialize, which nothing awaits
InitializeMkdir ==
    /\ Running /\ initPc = "mkdir"
    /\ LET m == MkdirP(fs, SparkleRoot)
       IN  /\ fs' = m.fs
           /\ IF m.err # ""
              THEN initPc' = "rejected" /\ UNCHANGED walk
              ELSE /\ initPc' = "walk"
                   /\ walk' = [pending |-> SparkleRoot, frames |-> <<>>,
                               files |-> <<>>]
    /\ UNCHANGED <<otherVars, scan, fileIndex, indexReady, watcher, events,
                   tasks, queries, userOps>>

\* walkDirectory: a readdir returns; a failure is thrown through every caller
\* to the catch of indexAllFiles
WalkDirectory ==
    /\ Running /\ initPc = "walk"
    /\ LET r == Readdir(fs, walk.pending)
           w == WalkResume(Append(walk.frames,
                                  [dir |-> walk.pending, rest |-> r.entries]),
                           walk.files)
       IN  IF r.err # ""
           THEN /\ initPc' = "watch"
                /\ walk' = [pending |-> Empty, frames |-> <<>>, files |-> <<>>]
                /\ UNCHANGED scan
           ELSE /\ walk' = w
                /\ IF w.pending # Empty THEN UNCHANGED <<initPc, scan>>
                   ELSE IF w.files = <<>>
                        THEN initPc' = "watch" /\ UNCHANGED scan
                   ELSE /\ initPc' = "scan"
                        /\ scan' = [pos |-> 1, pc |-> "stat", meta |-> NoMeta]
    /\ UNCHANGED <<fs, otherVars, fileIndex, indexReady, watcher, events,
                   tasks, queries, userOps>>

\* the loop of indexAllFiles after an indexFile has returned
ScanNext ==
    IF scan.pos < Len(walk.files)
    THEN /\ scan' = [pos |-> scan.pos + 1, pc |-> "stat", meta |-> NoMeta]
         /\ UNCHANGED initPc
    ELSE /\ scan' = [scan EXCEPT !.pc = "returned", !.meta = NoMeta]
         /\ initPc' = "watch"

\* indexAllFiles, line 93: the stat of indexFile returns; its failure is
\* thrown out of the loop to the catch of line 97
ScanStat ==
    /\ Running /\ initPc = "scan" /\ scan.pc = "stat"
    /\ LET r == IndexFileStat(fs, walk.files[scan.pos])
       IN  IF r.err # ""
           THEN /\ scan' = [scan EXCEPT !.pc = "caught"]
                /\ initPc' = "watch"
                /\ UNCHANGED fileIndex
           ELSE IF r.read
                THEN /\ scan' = [scan EXCEPT !.pc = "read", !.meta = r.meta]
                     /\ UNCHANGED <<initPc, fileIndex>>
           ELSE /\ fileIndex' = IndexFileDone(fileIndex, r.meta)
                /\ ScanNext
    /\ UNCHANGED <<fs, otherVars, walk, indexReady, watcher, events, tasks,
                   queries, userOps>>

\* indexAllFiles, line 93: the readFile of indexFile returns
ScanRead ==
    /\ Running /\ initPc = "scan" /\ scan.pc = "read"
    /\ fileIndex' = IndexFileDone(fileIndex, IndexFileRead(fs, scan.meta))
    /\ ScanNext
    /\ UNCHANGED <<fs, otherVars, walk, indexReady, watcher, events, tasks,
                   queries, userOps>>

\* initialize, lines 50-52: setupWatcher subscribes the three handlers and
\* the index is ready
InitializeReady ==
    /\ Running /\ initPc = "watch"
    /\ watcher' = "watching"
    /\ indexReady' = TRUE
    /\ initPc' = "done"
    /\ UNCHANGED <<fs, otherVars, walk, scan, fileIndex, events, tasks,
                   queries, userOps>>

\* the changes a user makes to the folder while the server runs
UserChanges ==
    { [kind |-> "write", path |-> NewTxt, data |-> <<"budget">>],
      [kind |-> "write", path |-> ShotPng, data |-> <<"x">>],
      [kind |-> "write", path |-> NotesTxt, data |-> <<"plan">>],
      [kind |-> "unlink", path |-> NotesTxt] }

\* the day the server starts: the files of the fixture are older than the
\* days of the recency bonus
StartTime == 8
\* the clock of the index: a day passes with every change of the user
Clock == now + userOps

\* a user creates, overwrites or deletes a file of the folder; the watcher
\* of setupWatcher queues the event
UserChange(c) ==
    /\ Running /\ userOps < MaxUserOps
    /\ userOps' = userOps + 1
    /\ IF c.kind = "write"
       THEN LET w == WriteFile(fs, c.path, c.data, Clock + 1)
                existed == fs[c.path].kind = "file"
            IN  /\ w.err = ""
                /\ fs' = w.fs
                /\ events' = Emit(<<[kind |-> IF existed THEN "change" ELSE "add",
                                     path |-> c.path]>>)
       ELSE /\ fs[c.path].kind = "file"
            /\ fs' = Put(fs, c.path, NoNode)
            /\ events' = Emit(<<[kind |-> "unlink", path |-> c.path]>>)
    /\ UNCHANGED <<otherVars, initPc, walk, scan, fileIndex, indexReady,
                   watcher, tasks, queries>>

\* the promise of handler call i settles
Settled(i, pc, out) == [tasks EXCEPT ![i].pc = pc, ![i].out = out]

\* a handler called with the next event, suspended at the stat of indexFile
Handle(handler) ==
    /\ events' = Tail(events)
    /\ tasks' = Append(tasks, [handler |-> handler, path |-> Head(events).path,
                               pc |-> "stat", meta |-> NoMeta, out |-> ""])
    /\ UNCHANGED <<fs, otherVars, initPc, walk, scan, fileIndex, indexReady,
                   watcher, queries, userOps>>

onFileAdded ==
    /\ Running /\ events # <<>> /\ Head(events).kind = "add"
    /\ Handle("onFileAdded")

onFileChanged ==
    /\ Running /\ events # <<>> /\ Head(events).kind = "change"
    /\ Handle("onFileChanged")

onFileRemoved ==
    /\ Running /\ events # <<>> /\ Head(events).kind = "unlink"
    /\ events' = Tail(events)
    /\ fileIndex' = IndexDelete(fileIndex, Head(events).path)
    /\ tasks' = Append(tasks, [handler |-> "onFileRemoved",
                               path |-> Head(events).path, pc |-> "returned",
                               meta |-> NoMeta, out |-> ""])
    /\ UNCHANGED <<fs, otherVars, initPc, walk, scan, indexReady, watcher,
                   queries, userOps>>

\* a handler after its indexFile has returned: onFileAdded goes on to
\* enhanceFileName for a generic name, otherwise the handler returns
AfterIndexFile(i, metadata) ==
    IF tasks[i].handler = "onFileAdded" /\ needsBetterName(metadata)
    THEN tasks' = [tasks EXCEPT ![i].pc = "rename", ![i].meta = metadata]
    ELSE tasks' = Settled(i, "returned", "")

\* the stat of a handler's indexFile returns; its failure rejects the
\* promise of the handler, which nothing awaits
HandlerStat(i) ==
    /\ Running /\ tasks[i].pc = "stat"
    /\ LET r == IndexFileStat(fs, tasks[i].path)
       IN  IF r.err # ""
           THEN tasks' = Settled(i, "rejected", r.err) /\ UNCHANGED fileIndex
           ELSE IF r.read
                THEN /\ tasks' = [tasks EXCEPT ![i].pc = "read",
                                               ![i].meta = r.meta]
                     /\ UNCHANGED fileIndex
           ELSE /\ fileIndex' = IndexFileDone(fileIndex, r.meta)
                /\ AfterIndexFile(i, r.meta)
    /\ UNCHANGED <<fs, otherVars, initPc, walk, scan, indexReady, watcher,
                   events, queries, userOps>>

\* the readFile of a handler's indexFile returns
HandlerRead(i) ==
    /\ Running /\ tasks[i].pc = "read"
    /\ LET metadata == IndexFileRead(fs, tasks[i].meta)
       IN  /\ fileIndex' = IndexFileDone(fileIndex, metadata)
           /\ AfterIndexFile(i, metadata)
    /\ UNCHANGED <<fs, otherVars, initPc, walk, scan, indexReady, watcher,
                   events, queries, userOps>>

\* enhanceFileName: the rename returns, a failure is logged; the watcher
\* sees the old name go and the new one appear
HandlerRename(i) ==
    /\ Running /\ tasks[i].pc = "rename"
    /\ LET newPath == EnhancedPath(tasks[i].path, tasks[i].meta)
           r == Rename(fs, tasks[i].path, newPath)
       IN  /\ fs' = r.fs
           /\ events' = IF r.err # "" THEN events
                        ELSE Emit(<<[kind |-> "unlink", path |-> tasks[i].path],
                                    [kind |-> "add", path |-> newPath]>>)
           /\ tasks' = Settled(i, "returned",
                               IF r.err # "" THEN "logged" ELSE "renamed")
    /\ UNCHANGED <<otherVars, initPc, walk, scan, fileIndex, indexReady,
                   watcher, queries, userOps>>

\* a findRelevant that never waits
NeedsWait_Mut == FALSE
\* findRelevant, line 234
NeedsWait == ~indexReady

\* the queries and the limits findRelevant is called with
Queries == {<<"notes", ".txt">>, <<"plan">>, <<"zebra">>}
MaxLimit == 2

\* findRelevant from the embedding of the query to its return: the entries
\* are read from the index in one go, scored, sorted and cut to the limit
Scored(query, limit, waited) ==
    LET queryEmbedding ==
            generateEmbedding([NoMeta EXCEPT !.name = query,
                                             !.hasContent = TRUE,
                                             !.content = query])
        results ==
            [i \in 1..Len(fileIndex) |->
                [path |-> fileIndex[i].path,
                 relevance |->
                    calculateRelevance(query, fileIndex[i], queryEmbedding,
                                       IF fileIndex[i].hasEmbedding
                                       THEN fileIndex[i].embedding ELSE <<>>,
                                       Clock)]]
    IN  [pc |-> "returned", query |-> query, limit |-> limit,
         waited |-> waited, ready |-> indexReady, init |-> initPc,
         scored |-> [i \in 1..Len(results) |-> results[i].path],
         relevance |-> [i \in 1..Len(results) |-> results[i].relevance],
         results |-> Slice(SortByRelevance(results), limit)]

\* a call of findRelevant: it goes through, or suspends in waitForIndex
findRelevant ==
    /\ Running /\ initPc # "none" /\ Len(queries) < MaxQueries
    /\ \E query \in Queries, limit \in 0..MaxLimit :
        queries' = Append(queries,
                          IF NeedsWait
                          THEN [pc |-> "waiting", query |-> query,
                                limit |-> limit, waited |-> TRUE,
                                ready |-> FALSE, init |-> initPc,
                                scored |-> <<>>, relevance |-> <<>>,
                                results |-> <<>>]
                          ELSE Scored(query, limit, FALSE))
    /\ UNCHANGED <<fs, otherVars, initPc, walk, scan, fileIndex, indexReady,
                   watcher, events, tasks, userOps>>

\* waitForIndex: the timer of a poll fires and finds the flag set
waitForIndex(q) ==
    /\ Running /\ queries[q].pc = "waiting"
    /\ indexReady
    /\ queries' = [queries EXCEPT
                      ![q] = Scored(queries[q].query, queries[q].limit, TRUE)]
    /\ UNCHANGED <<fs, otherVars, initPc, walk, scan, fileIndex, indexReady,
                   watcher, events, tasks, userOps>>

\* a cleanup that also clears the ready flag
cleanup_Mut ==
    /\ Running
    /\ watcher' = "closed"
    /\ indexReady' = FALSE
    /\ UNCHANGED <<fs, otherVars, initPc, walk, scan, fileIndex, events,
                   tasks, queries, userOps>>
\* cleanup, called on SIGTERM and SIGINT before the process exits
cleanup ==
    /\ Running
    /\ watcher' = "closed"
    /\ UNCHANGED <<fs, otherVars, initPc, walk, scan, fileIndex, indexReady,
                   events, tasks, queries, userOps>>

\* the state the constructor of SparkleFolder leaves: initialize suspended
\* at its mkdir
Init ==
    /\ fs \in IndexDisks
    /\ config = ServerConfig
    /\ vres = NoResult
    /\ tres = NoToolResult
    /\ requests = [id \in {"get_files", "search"} |-> <<>>]
    /\ now = StartTime
    /\ mutations = 0
    /\ initPc = "mkdir"
    /\ walk = [pending |-> Empty, frames |-> <<>>, files |-> <<>>]
    /\ scan = [pos |-> 0, pc |-> "none", meta |-> NoMeta]
    /\ fileIndex = <<>>
    /\ indexReady = FALSE
    /\ watcher = "none"
    /\ events = <<>>
    /\ tasks = <<>>
    /\ queries = <<>>
    /\ userOps = 0
    /\ SearchIdle
    /\ StartupIdle
    /\ ScoringIdle

\* the steps of the server
Step ==
    \/ InitializeMkdir
    \/ WalkDirectory
    \/ ScanStat
    \/ ScanRead
    \/ InitializeReady
    \/ onFileAdded
    \/ onFileChanged
    \/ onFileRemoved
    \/ \E i \in 1..Len(tasks) : HandlerStat(i)
    \/ \E i \in 1..Len(tasks) : HandlerRead(i)
    \/ \E i \in 1..Len(tasks) : HandlerRename(i)
    \/ \E q \in 1..Len(queries) : waitForIndex(q)

\* the steps of the server's callers and of the user
Environment ==
    \/ findRelevant
    \/ \E c \in UserChanges : UserChange(c)

Next == Step \/ Environment \/ cleanup

Spec == Init /\ [][Next]_vars

(***************************************************************************)
(* Claims about the life cycle of the index                                *)
(***************************************************************************)
\* C7: the index lifecycle is monotone: the ready flag is set only when
\* initialize has run to its end, and once it is true no later step (a watch
\* event, findRelevant, a rename, a failed indexFile, cleanup) sets it back
\* to false or starts another walk or scan.
C7_ReadyIsMonotone ==
    /\ [](indexReady => initPc = "done")
    /\ [][indexReady => /\ indexReady'
                        /\ initPc' = initPc
                        /\ walk' = walk
                        /\ scan' = scan]_vars

\* the index is ready and has since seen a user's file renamed and indexed
\* again, a query answered and cleanup
C7_Witness ==
    /\ indexReady
    /\ watcher = "closed"
    /\ EnhancedShot \in IndexKeys(fileIndex)
    /\ \E q \in 1..Len(queries) : queries[q].pc = "returned"

\* C8: the index becomes Ready whichever step of initialize fails (creating
\* the root directory, listing it, the stat or read of a file), so that no
\* findRelevant call waits forever: initialize never ends, returned or
\* rejected, with the ready flag false.  After initialize has ended no step
\* sets the flag, so a state that violates this is one from which the index
\* is never Ready and every waiting call polls forever.
C8_InitializeEndsReady ==
    initPc \in {"done", "rejected"} => indexReady

\* C9: no findRelevant call returns a result computed while the index is
\* not Ready: the entries a returned call has scored were read from the
\* index when the ready flag was true and initialize had ended.
C9_NoResultBeforeReady ==
    \A q \in 1..Len(queries) :
        queries[q].pc = "returned"
            => queries[q].ready /\ queries[q].init = "done"

\* a call issued before the index was ready has waited and returned entries
C9_Witness ==
    \E q \in 1..Len(queries) :
        /\ queries[q].pc = "returned"
        /\ queries[q].waited
        /\ queries[q].scored # <<>>

\* C10: in the initial scan a stat or read failure on one file skips only
\* that file: when the index becomes Ready, every file the walk returned
\* whose stat succeeds has an entry in the index.
C10_FailureSkipsOnlyThatFile ==
    [][(~indexReady /\ indexReady')
          => \A i \in 1..Len(walk.files) :
                Stat(fs', walk.files[i]).err = ""
                    => walk.files[i] \in IndexKeys(fileIndex')]_vars

(***************************************************************************)
(* Claims about the watch events                                           *)
(***************************************************************************)
\* handler call i has not settled
InFlight(i) == tasks[i].pc \notin {"returned", "rejected"}
\* the paths a findRelevant call has scored
\* the metadata indexFile builds from the disk as it is
FreshMeta(f, filePath) ==
    LET r == IndexFileStat(f, filePath)
        metadata == IF r.read THEN IndexFileRead(f, r.meta) ELSE r.meta
    IN  [metadata EXCEPT !.hasEmbedding = TRUE,
                         !.embedding = generateEmbedding(metadata)]

\* C11: watch events are applied strictly in delivery order: the handling
\* of an event begins only when the handler of every event delivered before
\* it has settled, so handlers never overlap.
C11_HandlersInDeliveryOrder ==
    [][Len(tasks') > Len(tasks)
          => \A i \in 1..Len(tasks) : ~InFlight(i)]_vars

\* C12: once two (or more) add or change events for a path P have been
\* processed, no event for P is pending, no handler for P is in flight and
\* the file exists, the index holds exactly one entry keyed by P and that
\* entry is the metadata of the file as it is on disk.
C12_ChangeIdempotent ==
    \A P \in Paths :
        LET processed == {i \in 1..Len(tasks) :
                            /\ tasks[i].path = P
                            /\ tasks[i].handler \in {"onFileAdded",
                                                     "onFileChanged"}
                            /\ tasks[i].pc = "returned"}
        IN  ( /\ Cardinality(processed) >= 2
              /\ \A k \in 1..Len(events) : events[k].path # P
              /\ \A i \in 1..Len(tasks) : tasks[i].path = P => ~InFlight(i)
              /\ fs[P].kind = "file" )
            => /\ Cardinality({k \in 1..Len(fileIndex) :
                                  fileIndex[k].path = P}) = 1
               /\ \A k \in 1..Len(fileIndex) :
                     fileIndex[k].path = P => fileIndex[k] = FreshMeta(fs, P)

\* the last add or remove event delivered for P is a remove event
RemovedLast(P) ==
    \E i \in 1..Len(tasks) :
        /\ tasks[i].handler = "onFileRemoved" /\ tasks[i].path = P
        /\ \A j \in (i + 1)..Len(tasks) :
              ~(tasks[j].handler = "onFileAdded" /\ tasks[j].path = P)

\* C13: once the remove event for P has been handled and no add event for P
\* has been delivered after it, a findRelevant call that returns has not
\* scored P, whatever handlers were in flight when the event arrived.
C13_RemovedStaysOut ==
    [][\A q \in 1..Len(queries') :
          ( /\ queries'[q].pc = "returned"
            /\ (q > Len(queries) \/ queries[q].pc # "returned") )
          => \A P \in Paths :
                RemovedLast(P) => P \notin {queries'[q].scored[k] :
                                             k \in 1..Len(queries'[q].scored)}
      ]_vars

\* C14: when the onFileAdded call for a file with a generic name returns
\* after a successful rename, the index has an entry under the new path and
\* none under the original path.
C14_RenamedAndReindexed ==
    [][\A i \in 1..Len(tasks) :
          ( /\ tasks[i].handler = "onFileAdded"
            /\ InFlight(i)
            /\ tasks'[i].pc = "returned"
            /\ tasks'[i].out = "renamed" )
          => /\ EnhancedPath(tasks[i].path, tasks[i].meta)
                   \in IndexKeys(fileIndex')
             /\ tasks[i].path \notin IndexKeys(fileIndex')]_vars

(***************************************************************************)
(* Claims about the content of the entries                                 *)
(***************************************************************************)
\* the extensions the specification lists as text
TextExtensions == {<<".txt">>, <<".md">>, <<".json">>, <<".csv">>, <<".log">>}

Returned(q) == queries[q].pc = "returned"
ResultPaths(q) ==
    {queries[q].results[k].path : k \in 1..Len(queries[q].results)}

\* C15: a findRelevant call with a limit >= 0 returns min(limit, number of
\* entries) results, each an entry of the index with its relevance, in order
\* of non-increasing relevance, no path twice, and no entry left out has a
\* relevance above that of a result
C15_TopByRelevance ==
    \A q \in 1..Len(queries) :
        Returned(q) =>
            LET r == queries[q].results
                n == Len(queries[q].scored)
            IN  /\ Len(r) = IF queries[q].limit < n THEN queries[q].limit
                             ELSE n
                /\ \A k \in 1..Len(r) :
                        \E i \in 1..n :
                            /\ queries[q].scored[i] = r[k].path
                            /\ queries[q].relevance[i] = r[k].relevance
                /\ \A k \in 1..(Len(r) - 1) :
                        r[k].relevance >= r[k + 1].relevance
                /\ \A k, l \in 1..Len(r) : r[k].path = r[l].path => k = l
                /\ \A i \in 1..n :
                        queries[q].scored[i] \notin ResultPaths(q)
                        => \A k \in 1..Len(r) :
                               queries[q].relevance[i] <= r[k].relevance

\* a call cut by its limit returned the best of entries that differ in
\* relevance, the best not being the first of the index
C15_Witness ==
    \E q \in 1..Len(queries) :
        /\ Returned(q)
        /\ queries[q].limit = 1
        /\ Len(queries[q].results) = 1
        /\ Len(queries[q].scored) >= 3
        /\ queries[q].results[1].path # queries[q].scored[1]
        /\ queries[q].results[1].relevance > queries[q].relevance[1]

\* C16: the relevance calculateRelevance gives an entry is never below 0 and
\* never above 1.0 (1000 thousandths), whatever the sign of the cosine
C16_ScoreInUnitRange ==
    \A q \in 1..Len(queries) :
        \A i \in 1..Len(queries[q].relevance) :
            /\ queries[q].relevance[i] >= 0
            /\ queries[q].relevance[i] <= 1000

\* C17: a findRelevant call with a limit >= 1 whose query is the exact file
\* name of an entry of the index returns that entry first, with a relevance
\* of at least 0.3 (300 thousandths)
C17_ExactNameComesFirst ==
    \A q \in 1..Len(queries) :
        (Returned(q) /\ queries[q].limit >= 1) =>
            \A i \in 1..Len(queries[q].scored) :
                Basename(queries[q].scored[i]) = queries[q].query
                => /\ queries[q].results[1].path = queries[q].scored[i]
                   /\ queries[q].results[1].relevance >= 300

(***************************************************************************)
(* FileSearchEngine (search-engine.ts)                                     *)
(***************************************************************************)
\* String.prototype.length, in characters
RECURSIVE Length(_)
Length(str) == IF str = Empty THEN 0 ELSE Len(Head(str)) + Length(Tail(str))

\* String.prototype.trim
RECURSIVE TrimStart(_)
TrimStart(str) ==
    IF str # Empty /\ Head(str) \in Whitespace THEN TrimStart(Tail(str))
    ELSE str
RECURSIVE TrimEnd(_)
TrimEnd(str) ==
    IF str # Empty /\ str[Len(str)] \in Whitespace
    THEN TrimEnd(SubSeq(str, 1, Len(str) - 1))
    ELSE str
Trim(str) == TrimEnd(TrimStart(str))

\* [...new Set(list)]: the first occurrence of each element, in order
RECURSIVE Dedupe(_)
Dedupe(list) ==
    IF list = <<>> THEN <<>>
    ELSE LET rest == Dedupe(SubSeq(list, 1, Len(list) - 1))
             last == list[Len(list)]
         IN  IF \E i \in 1..Len(rest) : rest[i] = last THEN rest
             ELSE Append(rest, last)

\* FileSearchEngine.expandPath
expandPath(folderPath) ==
    IF StartsWith(folderPath, <<"~", Sl>>)
    THEN PathJoin(HomeDir, SubSeq(folderPath, 3, Len(folderPath)))
    ELSE folderPath

stopWords ==
    {"the", "is", "at", "which", "on", "a", "an", "and", "or", "but", "in",
     "with", "to", "for", "of", "as", "by", "that", "this", "from", "up",
     "out", "if", "about", "into", "through", "during", "how", "when",
     "where", "why", "what", "who", "whose", "whom", "been", "being", "have",
     "has", "had", "do", "does", "did", "will", "would", "should", "could",
     "may", "might", "must", "shall", "can", "need", "ought", "dare", "used"}
isStopWord(word) ==
    Len(word) = 1 /\ ToLowerCase(word)[1] \in stopWords

\* parseQuery: the file types the query hints at and its keywords; the
\* words are split at a backslash followed by letters s, as the pattern is
\* written
parseQuery(query) ==
    LET queryLower == ToLowerCase(query)
        has(w) == Includes(queryLower, <<w>>)
        words == SplitWords(query)
    IN  [fileTypes |->
            (IF has("pdf") THEN <<".pdf">> ELSE <<>>)
            \o (IF has("document") THEN <<".doc", ".docx", ".pdf">> ELSE <<>>)
            \o (IF has("image") \/ has("photo")
                THEN <<".jpg", ".jpeg", ".png", ".gif">> ELSE <<>>)
            \o (IF has("video") THEN <<".mp4", ".mov", ".avi">> ELSE <<>>)
            \o (IF has("audio") \/ has("podcast")
                THEN <<".mp3", ".wav", ".m4a">> ELSE <<>>),
         keywords |->
            LET kept == SelectSeq(words, LAMBDA word :
                            Length(word) > 2 /\ ~isStopWord(word))
            IN  [i \in 1..Len(kept) |-> ToLowerCase(kept[i])]]

\* a name matches one of the patterns "*ext", or there is no pattern
TypeMatches(name, fileTypes) ==
    \/ fileTypes = <<>>
    \/ \E i \in 1..Len(fileTypes) : EndsWith(name, <<fileTypes[i]>>)

\* the lines a command prints, each ended by a newline
RECURSIVE Lines(_)
Lines(paths) ==
    IF paths = <<>> THEN Empty
    ELSE Head(paths) \o <<"\n">> \o Lines(Tail(paths))

\* the output of find "searchPath" -type f ( -name "*ext" -o ... ) -maxdepth 5
FindStdout(f, searchPath, fileTypes) ==
    Lines(SelectSeq(EnumOrder, LAMBDA p :
        /\ f[p].kind = "file"
        /\ f[searchPath].kind \in {"dir", "file"}
        /\ Under(p, searchPath)
        /\ Len(Normalize(Split(p))) - Len(Normalize(Split(searchPath))) <= 5
        /\ TypeMatches(Basename(p), fileTypes)))

\* Math.min
Min(a, b) == IF a < b THEN a ELSE b

\* calculateNameRelevance after the file name is taken, in tenths
NameRelevance(fileName, keywords) ==
    Min(Cardinality({k \in 1..Len(keywords) :
                        Includes(fileName, keywords[k])}) * 6
        + Cardinality({k \in 1..Len(keywords) :
                        \/ fileName = keywords[k]
                        \/ fileName = keywords[k] \o <<".pdf">>
                        \/ fileName = keywords[k] \o <<".doc">>}) * 4,
        10)
calculateNameRelevance(filePath, keywords) ==
    NameRelevance(ToLowerCase(Basename(filePath)), keywords)

\* a SearchResult; matchedContent is undefined for a hit by name
NameHit(file, relevance) ==
    [path |-> file, relevance |-> relevance, hasMatchedContent |-> FALSE,
     matchedContent |-> Empty]
ContentHit(file, keyword) ==
    [path |-> file, relevance |-> 7, hasMatchedContent |-> TRUE,
     matchedContent |-> keyword]

\* the body of the loop of findByName: a file with a relevance above 0 is
\* a result
PushNameHit(results, file, relevance) ==
    IF relevance > 0 THEN Append(results, NameHit(file, relevance))
    ELSE results
\* the loop of findByName over the files
RECURSIVE NameHits(_, _, _, _)
NameHits(files, keywords, limit, results) ==
    IF files = <<>> \/ Len(results) >= limit THEN results
    ELSE NameHits(Tail(files), keywords, limit,
                  PushNameHit(results, Head(files),
                              calculateNameRelevance(Head(files), keywords)))

\* findByName: the output of find is split at "\\n", a backslash followed by
\* the letter n, as the separator is written
findByName(f, searchPath, keywords, fileTypes, limit) ==
    Slice(SortByRelevance(
              NameHits(SelectSeq(SplitOn(FindStdout(f, searchPath, fileTypes),
                                         "\\n"),
                                 NotBlank),
                       keywords, limit, <<>>)),
          limit)

\* a shouldSearchContent that lets every search go on to the content
shouldSearchContent_Mut(fileTypes) == TRUE
\* shouldSearchContent
textTypes == {".txt", ".md", ".json", ".csv", ".log", ".js", ".ts", ".py"}
shouldSearchContent(fileTypes) ==
    \/ Len(fileTypes) = 0
    \/ \E i \in 1..Len(fileTypes) : fileTypes[i] \in textTypes

\* the output of rg -i --files-with-matches (rg true) or of
\* grep -r -i -l ... | head -20 (rg false)
GrepStdout(f, rg, searchPath, keyword, fileTypes) ==
    Lines(Slice(
        SelectSeq(EnumOrder, LAMBDA p :
            /\ f[p].kind = "file" /\ f[p].readable
            /\ f[searchPath].kind \in {"dir", "file"}
            /\ Under(p, searchPath)
            /\ Includes(ToLowerCase(f[p].data), keyword)
            /\ IF Len(fileTypes) > 0 THEN TypeMatches(Basename(p), fileTypes)
               ELSE rg => \E ext \in textTypes : EndsWith(Basename(p), <<ext>>)),
        IF rg THEN Len(EnumOrder) ELSE 20))

\* grepSearch: the lines before the last "\\n" are results as they come, what
\* is left when the process closes is one more
GrepResults(complete, rest, keyword) ==
    [i \in 1..Len(complete) |-> ContentHit(Trim(complete[i]), keyword)]
    \o (IF NotBlank(rest) /\ Len(complete) < 20
        THEN <<ContentHit(Trim(rest), keyword)>> ELSE <<>>)
GrepLines(lines, keyword) ==
    GrepResults(Slice(SelectSeq(SubSeq(lines, 1, Len(lines) - 1), NotBlank),
                      20),
                lines[Len(lines)], keyword)
grepSearch(f, rg, searchPath, keyword, fileTypes) ==
    GrepLines(SplitOn(GrepStdout(f, rg, searchPath, keyword, fileTypes), "\\n"),
              keyword)

\* the loop of searchContent over the keywords
RECURSIVE ContentHits(_, _, _, _, _, _, _)
ContentHits(f, rg, searchPath, keywords, fileTypes, limit, results) ==
    IF keywords = <<>> \/ Len(results) >= limit THEN results
    ELSE ContentHits(f, rg, searchPath, Tail(keywords), fileTypes, limit,
                     results \o grepSearch(f, rg, searchPath, Head(keywords),
                                           fileTypes))
searchContent(f, rg, searchPath, keywords, fileTypes, limit) ==
    Slice(SortByRelevance(ContentHits(f, rg, searchPath, keywords, fileTypes,
                                      limit, <<>>)), limit)

\* searchInPath: the call with what its two phases returned
PathCall(searchPath, fileTypes, limit, findResults, contentResults) ==
    [searchPath |-> searchPath, fileTypes |-> fileTypes, limit |-> limit,
     findResults |-> findResults, contentResults |-> contentResults,
     results |-> findResults \o contentResults]
\* searchInPath after the search by name
SearchMore(f, rg, searchPath, keywords, fileTypes, limit, findResults) ==
    PathCall(searchPath, fileTypes, limit, findResults,
             IF Len(findResults) < limit /\ shouldSearchContent(fileTypes)
             THEN searchContent(f, rg, searchPath, keywords, fileTypes,
                                limit - Len(findResults))
             ELSE <<>>)
\* searchInPath after the file types are combined
SearchTyped(f, rg, searchPath, keywords, fileTypes, limit) ==
    SearchMore(f, rg, searchPath, keywords, fileTypes, limit,
               findByName(f, searchPath, keywords, fileTypes, limit))
searchInPath(f, rg, searchPath, searchTerms, requestedFileTypes, limit) ==
    SearchTyped(f, rg, searchPath, searchTerms.keywords,
                Dedupe(searchTerms.fileTypes \o requestedFileTypes), limit)

\* the loop of search over the locations: the calls of searchInPath made
RECURSIVE SearchPaths(_, _, _, _, _, _, _, _)
\* the body of the loop of search, after the call of searchInPath
SearchNext(f, rg, searchPaths, searchTerms, fileTypes, limit, results, calls) ==
    IF Len(results) >= limit THEN [results |-> results, calls |-> calls]
    ELSE SearchPaths(f, rg, searchPaths, searchTerms, fileTypes, limit,
                     results, calls)
SearchPushed(f, rg, paths, searchTerms, fileTypes, limit, results, calls, call) ==
    SearchNext(f, rg, paths, searchTerms, fileTypes, limit,
               results \o call.results, Append(calls, call))
SearchPaths(f, rg, searchPaths, searchTerms, fileTypes, limit, results, calls) ==
    IF searchPaths = <<>> THEN [results |-> results, calls |-> calls]
    ELSE SearchPushed(f, rg, Tail(searchPaths), searchTerms, fileTypes, limit,
                      results, calls,
                      searchInPath(f, rg, Head(searchPaths), searchTerms,
                                   fileTypes, limit - Len(results)))

\* the queries, locations, file types and limits search is called with
SearchQueries == {<<"plan">>, <<"budget">>, <<"notes">>, <<"pdf">>,
                  <<"the">>, <<"plan", " ", "q3">>}
SearchLocations == {<<DocsDir>>, <<SparkleRoot>>, <<DocsDir, SparkleRoot>>,
                    <<<<"~", Sl, "Sparkle">>, SiblingDir>>, <<>>}
SearchFileTypes == {<<>>, <<".md">>, <<".png">>}
MaxSearchLimit == 3
MaxSearches == 1

\* the folder a search runs over: the fixture and a picture
SearchFixture == [DiskFixture EXCEPT ![ShotPng] = FileNode(<<"budget">>, 0)]

\* a call of search with what it returned
SearchCall(query, locations, fileTypes, limit, rg, searchTerms, done) ==
    [query |-> query, locations |-> locations, fileTypes |-> fileTypes,
     limit |-> limit, rg |-> rg, searchTerms |-> searchTerms,
     calls |-> done.calls, results |-> Slice(done.results, limit)]
\* search after the query is parsed
SearchParsed(f, rg, query, locations, fileTypes, limit, searchTerms) ==
    SearchCall(query, locations, fileTypes, limit, rg, searchTerms,
               SearchPaths(f, rg,
                           [i \in 1..Len(locations) |->
                               expandPath(locations[i])],
                           searchTerms, fileTypes, limit, <<>>, <<>>))

\* FileSearchEngine.search; rg tells whether @vscode/ripgrep can be loaded
search ==
    /\ Len(searches) < MaxSearches
    /\ \E query \in SearchQueries, locations \in SearchLocations,
          fileTypes \in SearchFileTypes, limit \in 0..MaxSearchLimit,
          rg \in BOOLEAN :
        searches' = Append(searches,
                           SearchParsed(fs, rg, query, locations, fileTypes,
                                        limit, parseQuery(query)))
    /\ UNCHANGED <<fs, validatorVars, toolVars, initPc, walk, scan, fileIndex,
                   indexReady, watcher, events, tasks, queries, userOps,
                   startups, scorings>>

InitSearch ==
    /\ fs = SearchFixture
    /\ config = ServerConfig
    /\ vres = NoResult
    /\ ToolsIdle
    /\ IndexIdle
    /\ SearchIdle
    /\ StartupIdle
    /\ ScoringIdle

NextSearch == search

SpecSearch == InitSearch /\ [][NextSearch]_vars

(***************************************************************************)
(* Claims about the search engine                                          *)
(***************************************************************************)
\* the hits the searchInPath calls of search s returned
FoundHits(s) ==
    UNION {{searches[s].calls[c].results[k] :
                k \in 1..Len(searches[s].calls[c].results)} :
           c \in 1..Len(searches[s].calls)}
ReturnedHits(s) ==
    {searches[s].results[k] : k \in 1..Len(searches[s].results)}

\* C19: what search returns has at most limit entries, is in order of
\* non-increasing relevance, and no hit that was found and left out has a
\* relevance above that of a returned one
C19_MergedSortedTruncated ==
    \A s \in 1..Len(searches) :
        LET r == searches[s].results
        IN  /\ Len(r) <= searches[s].limit
            /\ \A k \in 1..(Len(r) - 1) : r[k].relevance >= r[k + 1].relevance
            /\ \A h \in FoundHits(s) \ ReturnedHits(s) :
                   \A k \in 1..Len(r) : h.relevance <= r[k].relevance

\* the extensions the specification lists as text-like
TextLike == {".txt", ".md", ".json", ".csv", ".log", ".js", ".ts", ".py"}
\* the calls of searchInPath
PathCalls ==
    UNION {{searches[s].calls[c] : c \in 1..Len(searches[s].calls)} :
           s \in 1..Len(searches)}
HasContentHit(call) ==
    \E k \in 1..Len(call.results) :
        call.results[k].hasMatchedContent \/ call.results[k].relevance = 7
UnderFilled(call) == Len(call.findResults) < call.limit
HasTextLike(call) ==
    \E i \in 1..Len(call.fileTypes) : call.fileTypes[i] \in TextLike

GetFilesRequests == {<< <<"plan">>, 1 >>}

\* handleGetRelevantFiles once the limiter has let the call through: the
\* findRelevant call, its results cut to maxFiles and sorted again
RelevantFiles(args, maxFiles, found) ==
    /\ queries' = Append(queries, found)
    /\ tres' =
          IF found.pc = "waiting"
          THEN ToolResult("get_relevant_files", args, "pending", <<>>, {})
          ELSE ToolResult("get_relevant_files", args, "ok",
                          SortByRelevance(Slice(found.results, maxFiles)), {})

\* handleGetRelevantFiles; the reply to a call suspended in waitForIndex is
\* sent when the call returns
handleGetRelevantFiles(query, maxFiles) ==
    LET args == <<query>>
        limit == checkLimit(requests, "get_files", now)
    IN  /\ Running /\ initPc # "none"
        /\ requests' = limit.requests
        /\ IF ~limit.ok
           THEN /\ tres' = ToolResult("get_relevant_files", args,
                                      "RateLimited", <<>>, {})
                /\ queries' = queries
           ELSE RelevantFiles(args, maxFiles,
                              IF NeedsWait
                              THEN [pc |-> "waiting", query |-> query,
                                    limit |-> maxFiles, waited |-> TRUE,
                                    ready |-> FALSE, init |-> initPc,
                                    scored |-> <<>>, relevance |-> <<>>,
                                    results |-> <<>>]
                              ELSE Scored(query, maxFiles, FALSE))
        /\ UNCHANGED <<fs, validatorVars, now, mutations, initPc, walk, scan,
                       fileIndex, indexReady, watcher, events, tasks, userOps,
                       searches, startups, scorings>>

\* the search_files requests of the server's callers
ServerSearchRequests == {<<Empty, <<"*", ".txt">>, <<>> >>}

\* the members of class SparkleFolder and of class RateLimiter
SparkleFolderMembers ==
    {"folderPath", "fileIndex", "watcher", "indexReady", "expandPath",
     "initialize", "setupWatcher", "onFileAdded", "onFileChanged",
     "onFileRemoved", "indexAllFiles", "walkDirectory", "indexFile",
     "getFileType", "isTextFile", "generateSummary", "generateEmbedding",
     "simpleHash", "needsBetterName", "enhanceFileName", "findRelevant",
     "calculateRelevance", "cosineSimilarity", "waitForIndex", "cleanup"}
RateLimiterMembers ==
    {"requests", "maxRequests", "windowMs", "checkLimit", "reset", "cleanup"}

\* the values of process.env.APP_ENV
AppEnvs == {"", "dev"}

\* handleHealthCheck: the stat of the root, then the health object, whose
\* properties are evaluated in order; calling a member the object does not
\* have throws a TypeError, and every throw goes to the catch
handleHealthCheck(appEnv) ==
    LET sparkleDir == IF appEnv = "dev" THEN SiblingDir ELSE SparkleRoot
        stats == Stat(fs, sparkleDir)
    IN  /\ tres' =
              IF stats.err # ""
              THEN ToolResult("health_check", <<appEnv>>, "unhealthy",
                              <<stats.err>>, {stats.real})
              ELSE IF "getFileCount" \notin SparkleFolderMembers
              THEN ToolResult("health_check", <<appEnv>>, "unhealthy",
                              <<"TypeError", "getFileCount">>, {stats.real})
              ELSE IF "getRemainingRequests" \notin RateLimiterMembers
              THEN ToolResult("health_check", <<appEnv>>, "unhealthy",
                              <<"TypeError", "getRemainingRequests">>,
                              {stats.real})
              ELSE ToolResult("health_check", <<appEnv>>, "healthy",
                              <<sparkleDir>>, {stats.real})
        /\ UNCHANGED <<fs, validatorVars, requests, now, mutations, indexVars>>

\* the state the constructor of SparkleMCPServer leaves
InitServer ==
    /\ fs \in {IndexFixture, NoFolder}
    /\ config = ServerConfig
    /\ vres = NoResult
    /\ ToolsIdle
    /\ initPc = "mkdir"
    /\ walk = [pending |-> Empty, frames |-> <<>>, files |-> <<>>]
    /\ scan = [pos |-> 0, pc |-> "none", meta |-> NoMeta]
    /\ fileIndex = <<>>
    /\ indexReady = FALSE
    /\ watcher = "none"
    /\ events = <<>>
    /\ tasks = <<>>
    /\ queries = <<>>
    /\ userOps = 0
    /\ SearchIdle
    /\ StartupIdle
    /\ ScoringIdle

\* the calls of the two rate-limited tools
GetFilesCall ==
    \E r \in GetFilesRequests : handleGetRelevantFiles(r[1], r[2])
SearchFilesCall ==
    \E r \in ServerSearchRequests : handleSearchFiles(r[1], r[2], r[3])

HealthCheckCall == \E appEnv \in AppEnvs : handleHealthCheck(appEnv)

NextServer ==
    \/ Tick
    \/ InitializeMkdir
    \/ WalkDirectory
    \/ ScanStat
    \/ ScanRead
    \/ InitializeReady
    \/ \E q \in 1..Len(queries) : waitForIndex(q)
    \/ GetFilesCall
    \/ SearchFilesCall
    \/ HealthCheckCall

SpecServer == InitServer /\ [][NextServer]_vars

\* the accepted calls of an identifier within the window that ends at t
validRequests(reqs, identifier, t) ==
    SelectSeq(reqs[identifier], LAMBDA time : t - time < windowMs)

\* a call of a rate-limited tool: refused exactly when maxRequests accepted
\* calls lie in the window, and then the limiter, the index, the queries and
\* the disk are as before; accepted otherwise, and then recorded
Limited(identifier, call) ==
    call =>
        IF Len(validRequests(requests, identifier, now)) >= maxRequests
        THEN /\ tres'.kind = "RateLimited"
             /\ UNCHANGED <<fs, requests, fileIndex, queries, indexReady>>
        ELSE /\ tres'.kind # "RateLimited"
             /\ requests'[identifier] =
                   Append(validRequests(requests, identifier, now), now)

\* C21: at every instant each identifier has at most maxRequests accepted
\* calls within the last windowMs, no accepted call of the window that ends
\* now is ever forgotten, and get_relevant_files and search_files called at
\* the limit answer with a rate-limit error and leave the index and the disk
\* alone
C21_AtMostMaxRequestsPerWindow ==
    /\ [](\A id \in DOMAIN requests :
            Len(validRequests(requests, id, now)) <= maxRequests)
    /\ [][/\ \A id \in DOMAIN requests :
                \A i \in 1..Len(validRequests(requests, id, now')) :
                    /\ i <= Len(validRequests(requests', id, now'))
                    /\ validRequests(requests', id, now')[i]
                          = validRequests(requests, id, now')[i]
          /\ Limited("get_files", GetFilesCall)
          /\ Limited("search", SearchFilesCall)]_vars

\* get_relevant_files answered from the index, then was refused with
\* maxRequests accepted calls in the window
C21_Witness ==
    /\ tres.op = "get_relevant_files" /\ tres.kind = "RateLimited"
    /\ Len(validRequests(requests, "get_files", now)) = maxRequests
    /\ \E q \in 1..Len(queries) : queries[q].pc = "returned"

(***************************************************************************)
(* RateLimiter on its own: any caller, any order of calls                  *)
(***************************************************************************)
\* a caller asks the limiter; tres keeps what checkLimit returned
CheckLimitCall(identifier) ==
    LET limit == checkLimit(requests, identifier, now)
    IN  /\ requests' = limit.requests
        /\ tres' = ToolResult("checkLimit", <<identifier>>,
                              IF limit.ok THEN "ok" ELSE "RateLimited",
                              <<>>, {})
        /\ UNCHANGED <<fs, validatorVars, now, mutations, indexVars>>

\* RateLimiter.reset: Map.delete, after which get(identifier) || [] is []
reset(identifier) ==
    /\ requests' = [requests EXCEPT ![identifier] = <<>>]
    /\ tres' = ToolResult("reset", <<identifier>>, "ok", <<>>, {})
    /\ UNCHANGED <<fs, validatorVars, now, mutations, indexVars>>

InitLimiter == InitTools

NextLimiter ==
    \/ Tick
    \/ \E id \in DOMAIN requests : CheckLimitCall(id)
    \/ \E id \in DOMAIN requests : reset(id)

SpecLimiter == InitLimiter /\ [][NextLimiter]_vars

\* C30: a checkLimit call that returns false leaves the history of every
\* identifier as it was, and a checkLimit or a reset on one identifier leaves
\* the history of every other identifier, and so the answer of any later
\* checkLimit on it, as they were
C30_RejectedCostsNothing ==
    [][\A a \in DOMAIN requests :
          /\ CheckLimitCall(a) /\ tres'.kind = "RateLimited"
             => requests' = requests
          /\ CheckLimitCall(a) \/ reset(a)
             => \A b \in DOMAIN requests \ {a} :
                   /\ requests'[b] = requests[b]
                   /\ \A t \in now..MaxTime :
                         checkLimit(requests', b, t).ok
                            = checkLimit(requests, b, t).ok]_vars

\* one identifier was refused at its limit while the other, with a call on
\* record, still has quota
C30_Witness ==
    /\ tres.op = "checkLimit" /\ tres.kind = "RateLimited"
    /\ \E b \in DOMAIN requests \ {tres.args[1]} :
          /\ Len(validRequests(requests, b, now)) \in 1..(maxRequests - 1)
          /\ checkLimit(requests, b, now).ok

(***************************************************************************)
(* ensureSparkleFolder: the root and its welcome file, start after start   *)
(***************************************************************************)
MaxStartups == 2

\* the text of the welcome file
welcomeContent == <<"Welcome">>

\* the changes a user makes to the welcome file between and during starts
ReadmeChanges ==
    { [kind |-> "write", path |-> welcomePath, data |-> <<"mine">>],
      [kind |-> "unlink", path |-> welcomePath] }

\* the disks a start may find: no welcome file, no root, a file in the place
\* of the root, a welcome file the user has rewritten
StartupDisks ==
    {DiskFixture, NoFolder, FolderIsFile,
     [DiskFixture EXCEPT ![welcomePath] = FileNode(<<"mine">>, 0)]}

\* run i of ensureSparkleFolder moves on
Ensured(i, pc, present, out) ==
    [startups EXCEPT ![i] = [pc |-> pc, present |-> present, out |-> out]]

\* the server starts: the constructor calls ensureSparkleFolder, which
\* suspends at its mkdir
StartServer ==
    /\ Len(startups) < MaxStartups
    /\ IF startups = <<>> THEN TRUE ELSE startups[Len(startups)].pc = "done"
    /\ startups' = Append(startups,
                          [pc |-> "mkdir", present |-> FALSE, out |-> ""])
    /\ UNCHANGED <<fs, validatorVars, toolVars, initPc, walk, scan, fileIndex,
                   indexReady, watcher, events, tasks, queries, userOps,
                   searches, scorings>>

\* fs.mkdir(sparkleDir, {recursive: true}); a failure goes to the outer catch
EnsureMkdir(i) ==
    /\ startups[i].pc = "mkdir"
    /\ LET m == MkdirP(fs, SparkleRoot)
       IN  /\ fs' = m.fs
           /\ startups' = IF m.err # ""
                          THEN Ensured(i, "done", FALSE, "failed")
                          ELSE Ensured(i, "access", FALSE, "")
    /\ UNCHANGED <<validatorVars, toolVars, initPc, walk, scan, fileIndex,
                   indexReady, watcher, events, tasks, queries, userOps,
                   searches, scorings>>

\* a presence check that always reports the file missing
EnsureAccess_Mut(i) ==
    /\ startups[i].pc = "access"
    /\ startups' = Ensured(i, "write", Stat(fs, welcomePath).err = "", "")
    /\ UNCHANGED <<fs, validatorVars, toolVars, initPc, walk, scan, fileIndex,
                   indexReady, watcher, events, tasks, queries, userOps,
                   searches, scorings>>
\* fs.access(welcomePath): the run ends if it succeeds, writes if it throws
EnsureAccess(i) ==
    /\ startups[i].pc = "access"
    /\ startups' = IF Stat(fs, welcomePath).err = ""
                   THEN Ensured(i, "done", TRUE, "kept")
                   ELSE Ensured(i, "write", FALSE, "")
    /\ UNCHANGED <<fs, validatorVars, toolVars, initPc, walk, scan, fileIndex,
                   indexReady, watcher, events, tasks, queries, userOps,
                   searches, scorings>>

\* fs.writeFile(welcomePath, welcomeContent); a failure goes to the outer
\* catch
EnsureWrite(i) ==
    /\ startups[i].pc = "write"
    /\ LET w == WriteFile(fs, welcomePath, welcomeContent, Clock)
       IN  /\ fs' = w.fs
           /\ startups' = Ensured(i, "done", startups[i].present,
                                  IF w.err # "" THEN "failed" ELSE "created")
    /\ UNCHANGED <<validatorVars, toolVars, initPc, walk, scan, fileIndex,
                   indexReady, watcher, events, tasks, queries, userOps,
                   searches, scorings>>

ensureSparkleFolder ==
    \E i \in 1..Len(startups) :
        EnsureMkdir(i) \/ EnsureAccess(i) \/ EnsureWrite(i)

InitStartup ==
    /\ fs \in StartupDisks
    /\ config = ServerConfig
    /\ vres = NoResult
    /\ ToolsIdle
    /\ IndexIdle
    /\ SearchIdle
    /\ StartupIdle
    /\ ScoringIdle

NextStartup ==
    \/ StartServer
    \/ \E i \in 1..Len(startups) : EnsureMkdir(i)
    \/ \E i \in 1..Len(startups) : EnsureAccess(i)
    \/ \E i \in 1..Len(startups) : EnsureWrite(i)
    \/ \E c \in ReadmeChanges : UserChange(c)

SpecStartup == InitStartup /\ [][NextStartup]_vars

C23_HealthyWhenRootExists ==
    [][HealthCheckCall
       => IF Stat(fs, SparkleRoot).err = ""
          THEN /\ tres'.kind = "healthy"
               /\ tres'.out = <<SparkleRoot, Len(fileIndex)>>
          ELSE tres'.kind = "unhealthy"]_vars

(***************************************************************************)
(* Claims about faults, atomicity and termination of the index             *)
(***************************************************************************)
\* C24: a fault while one watch event is handled (the stat of a file that
\* has vanished, a rename that fails) is caught inside the handler: the
\* promise of no handler call is rejected
C24_HandlerFaultsAreCaught ==
    \A i \in 1..Len(tasks) : tasks[i].pc # "rejected"

\* an entry of the index as indexFile leaves it: named after its path, with
\* an embedding of the fixed length
Complete(metadata) ==
    /\ metadata.path # Empty
    /\ metadata.name = Basename(metadata.path)
    /\ metadata.hasEmbedding
    /\ Len(metadata.embedding) = EmbeddingDims

\* C25: whenever another operation can run, every entry of the index is
\* complete and no key is stored twice, and a findRelevant call that returns
\* has scored, in one step in which the index does not change, exactly the
\* entries the index holds at that step, each once
C25_ScoringSeesCompleteEntries ==
    /\ [](/\ \A i \in 1..Len(fileIndex) : Complete(fileIndex[i])
          /\ \A i, j \in 1..Len(fileIndex) :
                fileIndex[i].path = fileIndex[j].path => i = j)
    /\ [][\A q \in 1..Len(queries') :
             /\ queries'[q].pc = "returned"
             /\ IF q <= Len(queries) THEN queries[q].pc # "returned" ELSE TRUE
             => /\ fileIndex' = fileIndex
                /\ queries'[q].scored =
                      [i \in 1..Len(fileIndex) |-> fileIndex[i].path]
                /\ Len(queries'[q].relevance) = Len(fileIndex)]_vars

\* a findRelevant call has scored the entries of the index while the
\* indexFile of a watch handler was in flight
C25_Witness ==
    /\ \E q \in 1..Len(queries) :
          queries[q].pc = "returned" /\ Len(queries[q].scored) >= 2
    /\ \E i \in 1..Len(tasks) : tasks[i].pc = "read"

(***************************************************************************)
(* The scoring functions of SparkleFolder, called on their own             *)
(***************************************************************************)
MaxScorings == 1

\* the queries and the files calculateRelevance is called with
ScoringQueries ==
    {<<"plan">>, <<"plan", " ", "q3">>, <<"notes", " ", "budget">>,
     <<"budget", "\\", "s", "notes">>, <<"notes", ".txt">>, <<"zebra">>}
ScoringFiles == {NotesTxt, PlanMd, BigBin, EmptyTxt}

\* indexFile on a disk nobody else touches: the metadata it stores
Embedded(metadata) ==
    [metadata EXCEPT !.hasEmbedding = TRUE,
                     !.embedding = generateEmbedding(metadata)]
indexFile(f, filePath) ==
    LET r == IndexFileStat(f, filePath)
    IN  Embedded(IF r.read THEN IndexFileRead(f, r.meta) ELSE r.meta)

\* one call of calculateRelevance as findRelevant makes it
RelevanceCall(query, metadata, clock) ==
    [fn |-> "calculateRelevance", query |-> query, metadata |-> metadata,
     clock |-> clock,
     keywords |-> KeywordMatching(query, metadata),
     relevance |->
        calculateRelevance(query, metadata,
                           generateEmbedding([NoMeta EXCEPT
                                                 !.name = query,
                                                 !.hasContent = TRUE,
                                                 !.content = query]),
                           metadata.embedding, clock)]

Relevance ==
    /\ Len(scorings) < MaxScorings
    /\ \E query \in ScoringQueries, filePath \in ScoringFiles,
          clock \in 0..StartTime :
        scorings' = Append(scorings,
                           RelevanceCall(query, indexFile(fs, filePath),
                                         clock))
    /\ UNCHANGED <<fs, validatorVars, toolVars, initPc, walk, scan, fileIndex,
                   indexReady, watcher, events, tasks, queries, userOps,
                   searches, startups>>

InitScoring ==
    /\ fs = IndexFixture
    /\ config = ServerConfig
    /\ vres = NoResult
    /\ ToolsIdle
    /\ IndexIdle
    /\ SearchIdle
    /\ StartupIdle
    /\ ScoringIdle

MaxHashLen == 7

\* the strings simpleHash is called with: every string of two characters up
\* to a length at which the 32 bits have wrapped
HashChars == {"notes", "zebra"}
HashStrings == UNION {[1..n -> HashChars] : n \in 0..MaxHashLen}

\* one call of simpleHash, and the embeddings of a file that has the string
\* as its name and of a file that has it as its content
HashCall(str) ==
    [fn |-> "simpleHash", str |-> str,
     raw |-> HashFrom(Int32(0, 0), str),
     hash |-> simpleHash(str),
     byName |-> generateEmbedding([NoMeta EXCEPT !.name = str]),
     byContent |-> generateEmbedding([NoMeta EXCEPT !.name = <<"x">>,
                                                    !.hasContent = TRUE,
                                                    !.content = str])]

Hash ==
    /\ Len(scorings) < MaxScorings
    /\ \E str \in HashStrings : scorings' = Append(scorings, HashCall(str))
    /\ UNCHANGED <<fs, validatorVars, toolVars, initPc, walk, scan, fileIndex,
                   indexReady, watcher, events, tasks, queries, userOps,
                   searches, startups>>

NextScoring == Relevance \/ Hash

SpecScoring == InitScoring /\ [][NextScoring]_vars

\* a string cut at its runs of whitespace, as split(/\s+/) cuts it
RECURSIVE WhitespaceWordsAcc(_, _, _)
WhitespaceWordsAcc(str, cur, acc) ==
    IF str = Empty THEN Append(acc, cur)
    ELSE IF Head(str) \in Whitespace
         THEN IF cur = Empty /\ acc # <<>>
              THEN WhitespaceWordsAcc(Tail(str), Empty, acc)
              ELSE WhitespaceWordsAcc(Tail(str), Empty, Append(acc, cur))
         ELSE WhitespaceWordsAcc(Tail(str), Append(cur, Head(str)), acc)
WhitespaceWords(str) == WhitespaceWordsAcc(str, Empty, <<>>)

\* C26: calculateRelevance cuts the query at whitespace and the keywords add
\* to the score, before the clamp, 0.3 for each keyword the lower-cased file
\* name includes and 0.2 for each keyword the lower-cased content sample
\* includes
C26_KeywordsScoredOneByOne ==
    \A c \in 1..Len(scorings) :
        scorings[c].fn = "calculateRelevance"
        => LET words == WhitespaceWords(ToLowerCase(scorings[c].query))
               metadata == scorings[c].metadata
           IN  scorings[c].keywords =
                  300 * Matches(words, ToLowerCase(metadata.name))
                  + (IF metadata.hasContent /\ metadata.content # Empty
                     THEN 200 * Matches(words, ToLowerCase(metadata.content))
                     ELSE 0)

\* h_n of the claim: h_0 = 0 and h_(i+1) = 31 * h_i + c_i, kept to 32 bits
RECURSIVE Times31(_, _)
Times31(h, str) ==
    IF str = Empty THEN h
    ELSE LET t == h.lo * 31 + CharCode(Head(str))
         IN  Times31(Int32((h.hi * 31 + t \div 65536) % 65536, t % 65536),
                     Tail(str))

\* the 32 bits read as a signed integer are negative
Negative(h) == h.hi >= 32768

\* C27: simpleHash(s) is the absolute value of h_n, where h_0 = 0 and
\* h_(i+1) = 31 * h_i + c_i wrapped to signed 32 bits; it lies between 0 and
\* 2^31, the empty string hashes to 0, and files whose hashed text is the
\* same string get the same embedding, of the fixed length
C27_HashIsPolynomialMod32 ==
    \A c \in 1..Len(scorings) :
        scorings[c].fn = "simpleHash"
        => LET h == Times31(Int32(0, 0), scorings[c].str)
               hash == scorings[c].hash
           IN  /\ scorings[c].raw = h
               /\ IF Negative(h)
                  THEN /\ (hash.lo + h.lo) % 65536 = 0
                       /\ (hash.hi + h.hi + (hash.lo + h.lo) \div 65536)
                             % 65536 = 0
                  ELSE hash = h
               /\ hash.hi < 32768 \/ hash = Int32(32768, 0)
               /\ scorings[c].str = Empty => hash = Int32(0, 0)
               /\ Len(scorings[c].byName) = EmbeddingDims
               /\ scorings[c].str # Empty
                  => scorings[c].byContent = scorings[c].byName

\* a string long enough for the 32 bits to have wrapped, with a negative
\* h_n
C27_Witness ==
    \E c \in 1..Len(scorings) :
        /\ scorings[c].fn = "simpleHash"
        /\ Len(scorings[c].str) = MaxHashLen
        /\ Negative(scorings[c].raw)
        /\ scorings[c].hash # scorings[c].raw

\* the server has nothing left to do: initialize has returned, no watch
\* event waits and no handler is in flight
Quiet ==
    /\ indexReady /\ watcher = "watching"
    /\ events = <<>>
    /\ \A i \in 1..Len(tasks) : ~InFlight(i)

\* C28: a regular file created in the folder after the server was
\* constructed and not removed since is in the index once the server has
\* nothing left to do, also when it was created while the initial scan ran
C28_CreatedFilesReachIndex ==
    Quiet
    => \A p \in {NewTxt, ShotPng, EnhancedShot} :
          fs[p].kind = "file" => p \in IndexKeys(fileIndex)

\* the name enhanceFileName gives
Enhanced(filePath) == StartsWith(Basename(filePath), <<"enhanced_">>)

\* C29: the name enhanceFileName gives is never taken for a generic name:
\* the handler of the add event of a renamed file returns without a rename,
\* so every rename is of a file that was not renamed before
C29_RenamedAtMostOnce ==
    \A i \in 1..Len(tasks) :
        /\ tasks[i].pc = "rename" \/ tasks[i].out \in {"renamed", "logged"}
           => ~Enhanced(tasks[i].path)
        /\ Enhanced(tasks[i].path) /\ tasks[i].handler = "onFileAdded"
           /\ tasks[i].pc = "returned"
           => /\ tasks[i].out = ""
              /\ ~needsBetterName([NoMeta EXCEPT
                                      !.name = Basename(tasks[i].path)])

\* Screenshot.png was renamed, and the handler of the add event of the new
\* name has indexed it and returned
C29_Witness ==
    \E i, j \in 1..Len(tasks) :
        /\ i < j
        /\ tasks[i].path = ShotPng /\ tasks[i].out = "renamed"
        /\ tasks[j].path = EnhancedShot /\ tasks[j].handler = "onFileAdded"
        /\ tasks[j].pc = "returned"
        /\ EnhancedShot \in IndexKeys(fileIndex)
====
